---------------------------- MODULE Spec2Model ----------------------------
(***************************************************************************)
(* Geometry and layout engine of boxes (src/boxes/__init__.py): the canvas *)
(* transform stack, the turtle primitives (moveTo, edge, corner, polyline, *)
(* hole) with burn compensation, and the placement protocol (move).        *)
(*                                                                         *)
(* Numbers.  Lengths are integers counting tenths of a millimetre, so      *)
(* burn = 0.1 mm is 1 and r = 5 mm is 50.  Angles are integers counting    *)
(* 1/DegScale of a degree, so that every angle the code derives from the   *)
(* inputs drawn here (degrees / steps in corner) is an integer.  Points of *)
(* the sheet are kept exactly, as integer combinations of unit vectors     *)
(* u(a) (see Vec below); no sine or cosine is ever rounded.                *)
(***************************************************************************)
EXTENDS Integers, Sequences, FiniteSets, TLC

VARIABLES
    burn,       \* self.burn
    thickness,  \* self.thickness
    tabs,       \* self.tabs: the configured tab width (0: no tabs)
    debug,      \* self.debug
    labels,     \* self.labels
    cv,         \* self.context: the canvas (transform, current point, save stack)
    pc,         \* where the caller is: "idle", "drawing", "failed", "turtle", "call", "done"
    cur,        \* the arguments of the call in progress
    last,       \* what the last operation was given, emitted and returned
    log,        \* the panels placed so far: arguments and origin displacement
    nops        \* panels begun (bounded by MaxPanels) or primitives drawn (MaxDraws)

vars == <<burn, thickness, tabs, debug, labels, cv, pc, cur, last, log, nops>>

(***************************************************************************)
(* Bounds of the model.                                                    *)
(***************************************************************************)
MaxPanels == 2     \* panels placed in one run of the placement protocol
MaxDraws == 1      \* turtle primitives drawn in one run

(***************************************************************************)
(* Angles.                                                                 *)
(***************************************************************************)
DegScale == 11     \* angle units per degree: 360 / 11 steps is then exact
Deg(d) == d * DegScale
Turn == Deg(360)
HalfTurn == Deg(180)
Quarter == Deg(90)
Norm(a) == a % Turn

Abs(n) == IF n < 0 THEN -n ELSE n
Min(a, b) == IF a < b THEN a ELSE b
Max(a, b) == IF a > b THEN a ELSE b
Range(f) == {f[i] : i \in DOMAIN f}

(***************************************************************************)
(* Exact points.  A Vec is a function from angles a in 0 .. HalfTurn-1 to  *)
(* non-zero integers c, standing for the sum of c * u(a), u(a) the unit    *)
(* vector (cos a, sin a).  u(a + 180) = -u(a) folds every angle into that  *)
(* range, and the multiples of 30 degrees are written over the basis       *)
(* u(0), u(30), u(60), u(90), in which they have unique coordinates        *)
(* (u(120) = u(60) - u(0), u(150) = u(90) - u(30)).  Equal Vecs are equal  *)
(* points; for points built from multiples of 30 degrees the converse      *)
(* holds too.                                                              *)
(***************************************************************************)
VZero == [a \in {} |-> 0]

VAdd1(v, a, c) ==
    LET old == IF a \in DOMAIN v THEN v[a] ELSE 0
        new == old + c
    IN  IF new = 0
        THEN [k \in DOMAIN v \ {a} |-> v[k]]
        ELSE [k \in DOMAIN v \cup {a} |-> IF k = a THEN new ELSE v[k]]

\* v + c * u(ang), for any integer angle ang
VAddU(v, ang, c) ==
    LET a == Norm(ang)
        f == IF a >= HalfTurn THEN a - HalfTurn ELSE a
        g == IF a >= HalfTurn THEN -c ELSE c
    IN  IF c = 0 THEN v
        ELSE IF f = Deg(120) THEN VAdd1(VAdd1(v, Deg(60), g), 0, -g)
        ELSE IF f = Deg(150) THEN VAdd1(VAdd1(v, Deg(90), g), Deg(30), -g)
        ELSE VAdd1(v, f, g)

RECURSIVE VSum(_, _, _)
VSum(v, w, keys) ==
    IF keys = {} THEN v
    ELSE LET k == CHOOSE x \in keys : TRUE
         IN  VSum(VAdd1(v, k, w[k]), w, keys \ {k})

VPlus(v, w) == VSum(v, w, DOMAIN w)
VNeg(v) == [k \in DOMAIN v |-> -v[k]]
VMinus(v, w) == VPlus(v, VNeg(w))
\* the point (x, y) of the sheet
VXY(x, y) == VAddU(VAddU(VZero, 0, x), Quarter, y)

(***************************************************************************)
(* The canvas (self.context).  Its transform is the frame (o, h, s): the   *)
(* origin o on the sheet, the direction h of the x axis, and s = -1 when   *)
(* the frame is mirrored, the y axis being s * u(h + 90).  cp is the       *)
(* current point, on the sheet.  stack holds the saved states, out the     *)
(* drawing commands emitted since the operation in progress began.         *)
(***************************************************************************)
XAxis(c) == c.h
YAxis(c) == IF c.s = 1 THEN c.h + Quarter ELSE c.h - Quarter
\* the sheet point of the frame's point (x, y)
Pt(c, x, y) == VAddU(VAddU(c.o, XAxis(c), x), YAxis(c), y)
\* the sheet direction of the frame's direction a
Dir(c, a) == IF c.s = 1 THEN c.h + a ELSE c.h - a

Canvas0 == [o |-> VZero, h |-> 0, s |-> 1, cp |-> VZero, stack |-> <<>>, out |-> <<>>]

move_to(c, x, y) == [c EXCEPT !.cp = Pt(c, x, y)]
translate(c, x, y) == [c EXCEPT !.o = Pt(c, x, y), !.cp = Pt(c, x, y)]
rotate(c, a) == [c EXCEPT !.h = Norm(Dir(c, a))]
scale_mirror(c) == [c EXCEPT !.h = Norm(c.h + HalfTurn), !.s = -c.s]
save(c) ==
    [c EXCEPT !.stack = Append(@, [o |-> c.o, h |-> c.h, s |-> c.s, cp |-> c.cp]),
              !.cp = c.o]
restore_(c) ==
    LET top == c.stack[Len(c.stack)]
    IN  [c EXCEPT !.o = top.o, !.h = top.h, !.s = top.s, !.cp = top.cp,
                  !.stack = SubSeq(@, 1, Len(@) - 1)]
emit(c, cmd) == [c EXCEPT !.out = Append(@, cmd)]
\* translate(*get_current_point())
translate_cp(c) == [c EXCEPT !.o = c.cp]
rectangle(c, x, y, w, h) ==
    emit(c, [kind |-> "rect", at |-> Pt(c, x, y), w |-> w, h |-> h])
show_text(c) == emit(c, [kind |-> "text", at |-> c.o])
\* arc / arc_negative about the frame's point (0, yc), from direction a1 to a2
arc(c, yc, radius, a1, a2, negative) ==
    LET centre == Pt(c, 0, yc)
    IN  [emit(c, [kind |-> "arc", centre |-> centre, r |-> radius,
                  from |-> a1, to |-> a2, negative |-> negative])
         EXCEPT !.cp = VAddU(centre, Dir(c, a2), radius)]

Depth(c) == Len(c.stack)
\* TRUE of every canvas; asking it of a step's result has the step computed
\* before the next one starts, as the code runs them
Done(c) == Len(c.out) >= 0
Frame(c) == [o |-> c.o, h |-> c.h, s |-> c.s]

(***************************************************************************)
(* Boxes.moveTo and Boxes._continueDirection                               *)
(***************************************************************************)
moveTo(c, x, y, degrees) ==
    LET c1 == move_to(c, 0, 0)
        c2 == translate(c1, x, y)
        c3 == rotate(c2, degrees)
    IN  move_to(c3, 0, 0)

continueDirection(c, angle) == rotate(translate_cp(c), angle)


(***************************************************************************)
(* utils.restore and utils.holeCol: the wrapped body runs between a save   *)
(* and a restore, here the part of the wrapper before the body and the     *)
(* part after it.  restore reads the current point after the save (the     *)
(* frame's origin) and moves back to it after the restore.  stroke and the *)
(* pen colour do not touch the transform, the current point or the stack.  *)
(***************************************************************************)
restoreBefore(c) == save(c)
restoreAfter(c) == move_to(restore_(c), 0, 0)
holeColBefore(c) == save(c)
holeColAfter(c) == restore_(c)

(***************************************************************************)
(* Boxes.edge.  The cut segments of the run, along the x axis of the       *)
(* frame, as pairs <<from, to>> of numerators over EdgeDen: square =       *)
(* (length - tabs * self.tabs) / tabs need not be an integer, but every    *)
(* position the code computes is a multiple of square / 2 plus a multiple  *)
(* of self.tabs, hence an integer over 2 * tabs.                           *)
(***************************************************************************)
EdgeTabbed(length, ntabs) == ntabs # 0 /\ tabs # 0
\* tabs = min(tabs, max(1, int(length // (tabs * 3 * self.tabs))))
EdgeTabs(length, ntabs) == Min(ntabs, Max(1, length \div (ntabs * 3 * tabs)))
EdgeDen(length, ntabs) ==
    IF EdgeTabbed(length, ntabs) /\ ~(tabs > length)
    THEN 2 * EdgeTabs(length, ntabs) ELSE 1

EdgeSegs(length, ntabs) ==
    IF EdgeTabbed(length, ntabs)
    THEN IF tabs > length
         THEN <<>>                                  \* move_to(length, 0)
         ELSE LET k == EdgeTabs(length, ntabs)
                  den == 2 * k
                  hs == length - k * tabs           \* 0.5 * square, over den
                  w == den * tabs                   \* self.tabs, over den
                  first == << <<0, hs>> >>
                  mid == [i \in 1 .. (k - 1) |->
                            \* range(tabs - 1), i - 1 the loop index
                            << (2 * (i - 1) + 1) * hs + w,
                               (2 * (i - 1) + 1) * hs + w + 2 * hs >>]
                  start == IF k = 1 THEN (2 * k - 1) * hs + w
                                    ELSE (2 * k - 1) * hs + 2 * w
              IN  first \o mid \o << <<start, den * length>> >>
    ELSE << <<0, length>> >>

\* EdgeEnd without the move_to of an edge shorter than the tab
EdgeEndNoMove(length, ntabs) ==
    IF EdgeSegs(length, ntabs) = <<>> THEN 0
    ELSE EdgeSegs(length, ntabs)[Len(EdgeSegs(length, ntabs))][2] \div EdgeDen(length, ntabs)
\* where the last line_to or move_to of the branch taken leaves the current
\* point, on the x axis of the frame
EdgeEnd(length, ntabs) ==
    IF EdgeSegs(length, ntabs) = <<>> THEN length
    ELSE EdgeSegs(length, ntabs)[Len(EdgeSegs(length, ntabs))][2] \div EdgeDen(length, ntabs)

edge(c, length, ntabs) ==
    LET c1 == move_to(c, 0, 0)
        c2 == emit(c1, [kind |-> "edge", o |-> c.o, h |-> c.h,
                        segs |-> EdgeSegs(length, ntabs),
                        den |-> EdgeDen(length, ntabs)])
        c3 == move_to(c2, EdgeEnd(length, ntabs), 0)
    IN  translate_cp(c3)

(***************************************************************************)
(* Boxes.corner.  With tabs asked for and configured the code first        *)
(* computes the number of tabs that fit on the arc, int(length // (tabs *  *)
(* 3 * self.tabs)) with length = |r_ * rad|.  The arc is drawn without     *)
(* tabs when that number is 0, which CornerUntabbed decides with 355/113 > *)
(* pi.  A tabbed arc turns by angles that are no rational number of        *)
(* degrees; the model draws no input for which tabs fit.                   *)
(***************************************************************************)
CornerUntabbed(degrees, radius, ntabs) ==
    \/ ntabs = 0
    \/ tabs = 0
    \/ LET r_ == IF degrees > 0 THEN radius + burn ELSE radius - burn
       IN  Abs(r_) * Abs(degrees) * 355 < ntabs * 3 * tabs * HalfTurn * 113

CornerSplits(degrees, radius) ==
    \/ 2 * radius > burn /\ Abs(degrees) > Deg(36)
    \/ Abs(degrees) > Deg(100)
\* CornerSteps without the step added to the whole quotient
CornerStepsFewer(degrees) == Max(1, Abs(degrees) \div Deg(36))
CornerSteps(degrees) == Abs(degrees) \div Deg(36) + 1

\* CornerArc that takes the burn off every radius above 0: no fallback
CornerArcNoFallback(c, degrees, radius) ==
    IF degrees > 0
    THEN arc(c, radius + burn, radius + burn, -Quarter, degrees - Quarter, FALSE)
    ELSE IF radius > 0
    THEN arc(c, -(radius - burn), radius - burn, Quarter, degrees + Quarter, TRUE)
    ELSE arc(c, burn - radius, burn - radius, -Quarter, -Quarter + degrees, TRUE)

\* CornerArc whose fallback arc starts at the angle of the branch above it
CornerArcWrongStart(c, degrees, radius) ==
    IF degrees > 0
    THEN arc(c, radius + burn, radius + burn, -Quarter, degrees - Quarter, FALSE)
    ELSE IF radius > burn
    THEN arc(c, -(radius - burn), radius - burn, Quarter, degrees + Quarter, TRUE)
    ELSE arc(c, burn - radius, burn - radius, Quarter, Quarter + degrees, TRUE)

\* CornerArc whose inner arcs take the burn off twice
CornerArcDoubleBurn(c, degrees, radius) ==
    IF degrees > 0
    THEN arc(c, radius + burn, radius + burn, -Quarter, degrees - Quarter, FALSE)
    ELSE IF radius > burn
    THEN arc(c, -(radius - 2 * burn), radius - 2 * burn, Quarter, degrees + Quarter, TRUE)
    ELSE arc(c, burn - radius, burn - radius, -Quarter, -Quarter + degrees, TRUE)

\* the arc of one undivided corner
CornerArc(c, degrees, radius) ==
    IF degrees > 0
    THEN arc(c, radius + burn, radius + burn, -Quarter, degrees - Quarter, FALSE)
    ELSE IF radius > burn
    THEN arc(c, -(radius - burn), radius - burn, Quarter, degrees + Quarter, TRUE)
    ELSE arc(c, burn - radius, burn - radius, -Quarter, -Quarter + degrees, TRUE)

RECURSIVE corner(_, _, _, _)
RECURSIVE cornerTimes(_, _, _, _)
RECURSIVE cornerNext(_, _, _, _)
corner(c, degrees, radius, ntabs) ==
    IF ~CornerUntabbed(degrees, radius, ntabs)
    THEN c                                \* tabbed arc: not drawn by this model
    ELSE IF CornerSplits(degrees, radius)
    THEN cornerTimes(c, degrees \div CornerSteps(degrees), radius,
                     CornerSteps(degrees))
    ELSE continueDirection(CornerArc(c, degrees, radius), degrees)

\* for _ in range(steps): self.corner(float(degrees) / steps, radius)
cornerTimes(c, degrees, radius, n) ==
    IF n = 0 THEN c
    ELSE cornerNext(corner(c, degrees, radius, 0), degrees, radius, n)
cornerNext(c, degrees, radius, n) ==
    IF Done(c) THEN cornerTimes(c, degrees, radius, n - 1) ELSE c

\* the inputs whose derived angles are whole angle units
CornerExact(degrees, radius) ==
    CornerSplits(degrees, radius) => degrees % CornerSteps(degrees) = 0

(***************************************************************************)
(* Boxes.polyline.  args alternates lengths and angles; each argument is a *)
(* tuple: <<length>> or <<length, tabs>>, <<angle>> or <<angle, radius>>   *)
(* (a plain number of the source is the tuple of length one).              *)
(***************************************************************************)
\* one argument: a corner at the odd indices of the source, else an edge
polylineArg(c, arg, i) ==
    IF (i - 1) % 2 = 1
    THEN corner(c, arg[1], IF Len(arg) = 2 THEN arg[2] ELSE 0, 0)
    ELSE edge(c, arg[1], IF Len(arg) = 2 THEN arg[2] ELSE 0)
RECURSIVE polylineFrom(_, _, _)
RECURSIVE polylineNext(_, _, _)
polylineFrom(c, args, i) ==
    IF i > Len(args) THEN c
    ELSE polylineNext(polylineArg(c, args[i], i), args, i)
polylineNext(c, args, i) ==
    IF Done(c) THEN polylineFrom(c, args, i + 1) ELSE c
polyline(c, args) == polylineFrom(c, args, 1)

(***************************************************************************)
(* Boxes.hole                                                              *)
(***************************************************************************)
Eps == 1    \* the 1e-9 of the source: the smallest positive length of the model
HoleRadius(r, d) ==
    LET r1 == IF r = 0 THEN d \div 2 ELSE r
    IN  IF r1 < burn THEN burn + Eps ELSE r1
\* holeBody that starts the circle at the requested radius, burn not taken off
holeBodyNoBurn(c, x, y, r, d, ntabs) ==
    LET r1 == HoleRadius(r, d)
    IN  corner(moveTo(c, x + r1, y, -Quarter), -Turn, r1, ntabs)
holeBody(c, x, y, r, d, ntabs) ==
    LET r1 == HoleRadius(r, d)
        r_ == r1 - burn
    IN  corner(moveTo(c, x + r_, y, -Quarter), -Turn, r1, ntabs)
hole(c, x, y, r, d, ntabs) ==
    LET c1 == holeColBefore(restoreBefore(c))
    IN  restoreAfter(holeColAfter(holeBody(c1, x, y, r, d, ntabs)))

(***************************************************************************)
(* Boxes.text, as move calls it for a label: one line, fontsize 4 (40      *)
(* tenths), align "middle center".                                         *)
(***************************************************************************)
textBody(c, x, y) ==
    LET fontsize == 40
        height == 1 * fontsize                  \* lines * fontsize + 0
        c1 == moveTo(c, x, y, 0)
        c2 == moveTo(c1, 0, -(height \div 2), 0)  \* "middle"; "center" sets halign
        c3 == show_text(c2)
    IN  moveTo(c3, 0, (14 * fontsize) \div 10, 0)
text(c, x, y) ==
    restoreAfter(textBody(restoreBefore(c), x, y))

(***************************************************************************)
(* Boxes.move.  where is [isNone, terms]: None, or the string whose        *)
(* split() is terms.  The result is the canvas when move ends, ret in      *)
(* {"True", "False", "raise"} and, for a ValueError, the token its message *)
(* names.                                                                  *)
(***************************************************************************)
spacing == 2 * burn + thickness \div 2          \* set by Boxes.open

\* Moves with "left" applied after the part is drawn instead of before
MovesLeftLate(x, y) ==
    [up      |-> <<0, y, "False">>,
     down    |-> <<0, -y, "True">>,
     left    |-> <<-x, 0, "False">>,
     right   |-> <<x, 0, "False">>,
     only    |-> <<0, 0, "None">>,
     mirror  |-> <<0, 0, "None">>,
     rotated |-> <<0, 0, "None">>]

\* moves[term] = (mx, my, movebeforeprint)
Moves(x, y) ==
    [up      |-> <<0, y, "False">>,
     down    |-> <<0, -y, "True">>,
     left    |-> <<-x, 0, "True">>,
     right   |-> <<x, 0, "False">>,
     only    |-> <<0, 0, "None">>,
     mirror  |-> <<0, 0, "None">>,
     rotated |-> <<0, 0, "None">>]

Terms(where) == IF where.isNone \/ where.terms = <<>> THEN <<>> ELSE where.terms
\* DontDraw that forgets to ask for the before pass
DontDrawAnyPass(where, before) == "only" \in Range(Terms(where))
DontDraw(where, before) == before /\ "only" \in Range(Terms(where))

\* MoveTerms that skips a token it does not know
RECURSIVE MoveTermsLenient(_, _, _, _, _, _, _)
MoveTermsLenient(c, terms, i, x, y, before, dontdraw) ==
    IF i > Len(terms) THEN [c |-> c, raised |-> FALSE, token |-> ""]
    ELSE IF terms[i] \notin DOMAIN Moves(x, y)
    THEN MoveTermsLenient(c, terms, i + 1, x, y, before, dontdraw)
    ELSE LET m == Moves(x, y)[terms[i]]
             c1 == IF m[3] = "True" /\ before
                   THEN moveTo(c, m[1], m[2], 0)
                   ELSE IF (m[3] # "True" /\ ~before) \/ dontdraw
                   THEN moveTo(c, m[1], m[2], 0)
                   ELSE c
         IN  MoveTermsLenient(c1, terms, i + 1, x, y, before, dontdraw)

\* MoveTerms without the "or dontdraw" of its second test
RECURSIVE MoveTermsNoOnly(_, _, _, _, _, _, _)
MoveTermsNoOnly(c, terms, i, x, y, before, dontdraw) ==
    IF i > Len(terms) THEN [c |-> c, raised |-> FALSE, token |-> ""]
    ELSE IF terms[i] \notin DOMAIN Moves(x, y)
    THEN [c |-> c, raised |-> TRUE, token |-> terms[i]]
    ELSE LET m == Moves(x, y)[terms[i]]
             c1 == IF m[3] = "True" /\ before
                   THEN moveTo(c, m[1], m[2], 0)
                   ELSE IF m[3] # "True" /\ ~before
                   THEN moveTo(c, m[1], m[2], 0)
                   ELSE c
         IN  MoveTermsNoOnly(c1, terms, i + 1, x, y, before, dontdraw)

\* for term in terms: ...
RECURSIVE MoveTerms(_, _, _, _, _, _, _)
MoveTerms(c, terms, i, x, y, before, dontdraw) ==
    IF i > Len(terms) THEN [c |-> c, raised |-> FALSE, token |-> ""]
    ELSE IF terms[i] \notin DOMAIN Moves(x, y)
    THEN [c |-> c, raised |-> TRUE, token |-> terms[i]]
    ELSE LET m == Moves(x, y)[terms[i]]
             c1 == IF m[3] = "True" /\ before
                   THEN moveTo(c, m[1], m[2], 0)
                   ELSE IF (m[3] # "True" /\ ~before) \/ dontdraw
                   THEN moveTo(c, m[1], m[2], 0)
                   ELSE c
         IN  MoveTerms(c1, terms, i + 1, x, y, before, dontdraw)

\* if self.debug: with self.saved_context(): self.context.rectangle(0, 0, x, y)
MoveDebug(c, x, y) ==
    IF debug THEN restore_(rectangle(save(c), 0, 0, x, y)) ELSE c
\* if "rotated" in terms: self.moveTo(x, 0, 90); x, y = y, x
MoveRotate(c, terms, x) ==
    IF "rotated" \in Range(terms) THEN moveTo(c, x, 0, Quarter) ELSE c
\* if "mirror" in terms: self.moveTo(x, 0); self.context.scale(-1, 1)
MoveMirror(c, terms, x, y) ==
    IF "mirror" \in Range(terms)
    THEN scale_mirror(moveTo(c, IF "rotated" \in Range(terms) THEN y ELSE x, 0, 0))
    ELSE c
\* self.moveTo(self.spacing / 2.0, self.spacing / 2.0)
MoveInto(c) == moveTo(c, spacing \div 2, spacing \div 2, 0)

\* MovePrepare whose debug rectangle saves the context and never restores it
MovePrepareLeak(c, terms, x, y) ==
    MoveInto(MoveMirror(MoveRotate(save(rectangle(save(c), 0, 0, x, y)), terms, x),
                        terms, x, y))

\* the part of move after the loop, when the part is to be drawn
MovePrepare(c, terms, x, y) ==
    MoveInto(MoveMirror(MoveRotate(save(MoveDebug(c, x, y)), terms, x), terms, x, y))

\* if self.labels and label: self.text(label, x / 2, y / 2, ...)
MoveLabel(c, x, y, label) ==
    IF labels /\ label # "" THEN text(c, x \div 2, y \div 2) ELSE c
\* if not before: self.context.restore(); the label
MoveRestore(c, x, y, before, label) ==
    IF before THEN c ELSE MoveLabel(restore_(c), x, y, label)
\* what move does with the outcome lp of the loop over the terms
MoveEnd(lp, terms, x, y, before, dontdraw) ==
    IF lp.raised
    THEN [c |-> lp.c, ret |-> "raise", token |-> lp.token]
    ELSE [c |-> IF ~dontdraw /\ before THEN MovePrepare(lp.c, terms, x, y)
                ELSE lp.c,
          ret |-> IF dontdraw THEN "True" ELSE "False",
          token |-> ""]
\* x += self.spacing; y += self.spacing; if "rotated" in terms: x, y = y, x
MoveX(x0, y0, terms) ==
    IF "rotated" \in Range(terms) THEN y0 + spacing ELSE x0 + spacing
MoveY(x0, y0, terms) ==
    IF "rotated" \in Range(terms) THEN x0 + spacing ELSE y0 + spacing
MoveSized(c, terms, x, y, before, dontdraw, label) ==
    MoveEnd(MoveTerms(MoveRestore(c, x, y, before, label), terms, 1, x, y, before,
                      dontdraw),
            terms, x, y, before, dontdraw)
move(c, x0, y0, where, before, label) ==
    MoveSized(c, Terms(where), MoveX(x0, y0, Terms(where)), MoveY(x0, y0, Terms(where)),
              before, DontDraw(where, before), label)

(***************************************************************************)
(* Boxes.edgeCorner and Boxes.rectangularWall, for a right angle (tan 45 = *)
(* 1) and the plain edge profile "e", whose widths, margin and spacing are *)
(* all 0 and whose call draws edge(length).                                *)
(***************************************************************************)
PlainEdge == [startwidth |-> 0, endwidth |-> 0, margin |-> 0, spacing |-> 0]

\* self.edges: the registry, from a character to a profile.  "e" is the plain
\* edge; "h" and "s" stand for profiles with a width, "s" with an end width
\* that differs from its start width.
WideEdge == [startwidth |-> 60, endwidth |-> 60, margin |-> 0, spacing |-> 60]
SlantEdge == [startwidth |-> 30, endwidth |-> 70, margin |-> 0, spacing |-> 70]
Edges == [e |-> PlainEdge, h |-> WideEdge, s |-> SlantEdge]
Key(char) == [char |-> char]
\* self.edges.get(edge, edge): the profile of a character of the registry,
\* and anything else as it is
EdgesGet(given) ==
    IF "char" \in DOMAIN given /\ given.char \in DOMAIN Edges
    THEN Edges[given.char] ELSE given

\* edgeCorner that draws the end width of edge1 before the turn and the start
\* width of edge2 after it
edgeCornerEndFirst(c, edge1, edge2) ==
    edge(corner(edge(c, EdgesGet(edge1).endwidth, 0), Quarter, 0, 0),
         EdgesGet(edge2).startwidth, 0)
edgeCorner(c, edge1, edge2) ==
    edge(corner(edge(c, EdgesGet(edge2).startwidth, 0), Quarter, 0, 0),
         EdgesGet(edge1).endwidth, 0)

RECURSIVE wallSides(_, _, _, _)
RECURSIVE wallNext(_, _, _, _)
\* wallSides that starts with the height
wallSidesHeightFirst(c, x, y, i) ==
    IF i > 4 THEN c
    ELSE wallNext(edgeCorner(edge(c, IF i % 2 = 1 THEN y ELSE x, 0),
                             PlainEdge, PlainEdge),
                  x, y, i)
wallSides(c, x, y, i) ==
    IF i > 4 THEN c
    ELSE wallNext(edgeCorner(edge(c, IF i % 2 = 1 THEN x ELSE y, 0),  \* edges[i](square)
                             PlainEdge, PlainEdge),
                  x, y, i)
wallNext(c, x, y, i) ==
    IF Done(c) THEN wallSides(c, x, y, i + 1) ELSE c

\* the body of rectangularWall between its two calls of move
wallBody(c, x, y) ==
    LET c1 == moveTo(c, PlainEdge.spacing, 0, 0)
        c2 == moveTo(c1, 0, PlainEdge.margin, 0)
    IN  wallSides(c2, x, y, 1)

(***************************************************************************)
(* Inputs.                                                                 *)
(***************************************************************************)
Burns == {0, 1}
Thicknesses == {40}
Sizes == {<<300, 200>>, <<120, 80>>}
Labels == {"", "wall"}
Tokens == {"up", "down", "left", "right", "only", "mirror", "rotated"}
Unknown == "diagonal"
None == [isNone |-> TRUE, terms |-> <<>>]
Str(terms) == [isNone |-> FALSE, terms |-> terms]
\* every directive of at most two tokens, known or not
AllDirectives ==
    {None, Str(<<>>)}
        \cup {Str(<<a>>) : a \in Tokens \cup {Unknown}}
        \cup {Str(<<a, b>>) : a \in Tokens \cup {Unknown}, b \in Tokens \cup {Unknown}}
\* the directives the panels of a run are placed with
PanelDirectives ==
    {None, Str(<<"up">>), Str(<<"down">>), Str(<<"left">>), Str(<<"right">>),
     Str(<<"mirror">>), Str(<<"right", "rotated">>), Str(<<"up", "right">>),
     Str(<<"left", "only">>), Str(<<"down", "only">>), Str(<<"right", "only">>),
     Str(<<"up", "only">>), Str(<<"only", "rotated", "left">>),
     Str(<<"up", "mirror", "rotated">>), Str(<<"rotated", "left">>),
     Str(<<"up", Unknown>>)}

\* the panels of a run: (width, height, directive, label)
PanelArgs ==
    {<<300, 200, w, "wall">> : w \in PanelDirectives}
        \cup {<<120, 80, Str(w), "">> : w \in {<<"left", "only">>, <<"right">>, <<"up">>}}

NoCall == [op |-> "none"]

(***************************************************************************)
(* The placement protocol: a run places up to MaxPanels rectangular walls. *)
(* rectangularWall calls move before drawing, returns when move says so,   *)
(* draws, and calls move again with the same arguments.                    *)
(***************************************************************************)
Init ==
    /\ burn \in Burns
    /\ thickness \in Thicknesses
    /\ tabs = 0
    /\ debug \in BOOLEAN
    /\ labels \in BOOLEAN
    /\ cv = Canvas0
    /\ pc = "idle"
    /\ cur = NoCall
    /\ last = NoCall
    /\ log = <<>>
    /\ nops = 0

Config == <<burn, thickness, tabs, debug, labels>>

Pre(c) == [o |-> c.o, h |-> c.h, s |-> c.s, depth |-> Depth(c)]
Clear(c) == [c EXCEPT !.out = <<>>]
Placed(call, c, drawn) ==
    [x |-> call.x, y |-> call.y, where |-> call.where, drawn |-> drawn,
     from |-> call.pre, to |-> Pre(c)]

\* if self.move(overallwidth, overallheight, move, before=True): return
MoveCall(x, y, where, label) ==
    [op |-> "move", x |-> x, y |-> y, where |-> where, before |-> TRUE,
     label |-> label, pre |-> Pre(cv)]
MoveBeforeDone(call, res) ==
    /\ cv' = Clear(res.c)
    /\ last' = call @@
               [ret |-> res.ret, token |-> res.token, out |-> res.c.out,
                post |-> Pre(res.c)]
    /\ cur' = IF res.ret = "False" THEN call ELSE NoCall
    /\ pc' = CASE res.ret = "False" -> "drawing"
               [] res.ret = "True" -> "idle"
               [] OTHER -> "failed"
    /\ log' = IF res.ret = "True" THEN Append(log, Placed(call, res.c, FALSE))
              ELSE log
MoveBefore(x, y, where, label, panels) ==
    /\ pc = "idle"
    /\ nops < panels
    /\ nops' = nops + 1
    /\ MoveBeforeDone(MoveCall(x, y, where, label),
                      move(Clear(cv), x, y, where, TRUE, label))
    /\ UNCHANGED Config

DrawWallDone(c) ==
    /\ cv' = Clear(c)
    /\ last' = [op |-> "wall", pre |-> Pre(cv), out |-> c.out, post |-> Pre(c)]
DrawWall ==
    /\ pc = "drawing"
    /\ DrawWallDone(wallBody(Clear(cv), cur.x, cur.y))
    /\ pc' = "drawn"
    /\ UNCHANGED <<Config, cur, log, nops>>

\* self.move(overallwidth, overallheight, move, label=label)
MoveAfterDone(call, res) ==
    /\ cv' = Clear(res.c)
    /\ last' = call @@
               [ret |-> res.ret, token |-> res.token, out |-> res.c.out,
                post |-> Pre(res.c), first |-> cur]
    /\ pc' = IF res.ret = "raise" THEN "failed" ELSE "idle"
    /\ log' = IF res.ret = "raise" \/ call.where # cur.where THEN log
              ELSE Append(log, Placed(cur, res.c, TRUE))
MoveAfter(where) ==
    /\ pc = "drawn"
    /\ MoveAfterDone([cur EXCEPT !.before = FALSE, !.where = where, !.pre = Pre(cv)],
                     move(Clear(cv), cur.x, cur.y, where, FALSE, cur.label))
    /\ cur' = NoCall
    /\ UNCHANGED <<Config, nops>>

Next ==
    \/ \E a \in PanelArgs : MoveBefore(a[1], a[2], a[3], a[4], MaxPanels)
    \/ DrawWall
    \/ pc = "drawn" /\ MoveAfter(cur.where)

Spec == Init /\ [][Next]_vars

(***************************************************************************)
(* move as a function of its arguments: one panel, placed with any         *)
(* directive of at most two tokens, and an after pass that is given either *)
(* the directive of the before pass or, after a before pass with the empty *)
(* directive, any directive at all.                                        *)
(***************************************************************************)
AfterDirectives(where) ==
    IF where = Str(<<>>) THEN AllDirectives ELSE {where}

NextMove ==
    \/ \E sz \in Sizes, where \in AllDirectives, label \in Labels :
          MoveBefore(sz[1], sz[2], where, label, 1)
    \/ DrawWall
    \/ pc = "drawn" /\ \E where \in AfterDirectives(cur.where) : MoveAfter(where)

SpecMove == Init /\ [][NextMove]_vars

(***************************************************************************)
(* The turtle primitives: a run draws up to MaxDraws primitives, one after *)
(* the other, in the frame the one before left.  It starts in the frame of *)
(* the sheet or inside a panel placed "mirror" or "rotated".               *)
(***************************************************************************)
TurtleBurns == {0, 1, 3}
TabWidths == {0, 10}
StartCanvases ==
    {Canvas0, Clear(MovePrepare(Canvas0, <<"mirror">>, 300, 200)),
     Clear(MovePrepare(Canvas0, <<"rotated">>, 200, 300))}

CornerDegrees ==
    {0, Deg(30), -Deg(30), Deg(90), -Deg(90), Deg(120), -Deg(120), -Deg(360)}
Radii == {0, 1, 2, 50}
TabCounts == {0, 1, 2, 3}
CornerTabCounts == {0, 2}
EdgeLengths == {0, 5, 100, 270}
HoleCentres == {<<500, 300>>, <<0, 0>>}
HoleRadii == {0, 1, 2, 50}
HoleDiameters == {0, 20}

Outlines ==
    { \* the 50 x 30 rectangle
      << <<500>>, <<Deg(90)>>, <<300>>, <<Deg(90)>>, <<500>>, <<Deg(90)>>, <<300>>,
         <<Deg(90)>> >>,
      \* the same, clockwise
      << <<500>>, <<-Deg(90)>>, <<300>>, <<-Deg(90)>>, <<500>>, <<-Deg(90)>>,
         <<300>>, <<-Deg(90)>> >>,
      \* an L, with one inner corner
      << <<200>>, <<Deg(90)>>, <<100>>, <<Deg(90)>>, <<100>>, <<-Deg(90)>>, <<100>>,
         <<Deg(90)>>, <<100>>, <<Deg(90)>>, <<200>>, <<Deg(90)>> >>,
      \* the L with its inner corner rounded
      << <<200>>, <<Deg(90)>>, <<100>>, <<Deg(90)>>, <<98>>, <<-Deg(90), 2>>, <<98>>,
         <<Deg(90)>>, <<100>>, <<Deg(90)>>, <<200>>, <<Deg(90)>> >>,
      \* a rectangle with rounded corners and tabs
      << <<500, 2>>, <<Deg(90), 20>>, <<300, 1>>, <<Deg(90), 20>>, <<500, 2>>,
         <<Deg(90), 20>>, <<300, 1>>, <<Deg(90), 20>> >>,
      \* a triangle
      << <<300>>, <<Deg(120)>>, <<300>>, <<Deg(120)>>, <<300>>, <<Deg(120)>> >>,
      \* out and back
      << <<100>>, <<Deg(180)>>, <<100>>, <<Deg(180)>> >>,
      \* outlines that do not close
      << <<500>>, <<Deg(90)>>, <<300>> >>,
      << <<200>>, <<-Deg(90)>>, <<100>>, <<Deg(90), 2>>, <<50>>, <<Deg(90)>> >> }

\* the edges a corner is made between: characters of the registry and
\* profiles themselves, one of them not in the registry
CornerEdges ==
    {Key("e"), Key("h"), Key("s"), WideEdge, SlantEdge,
     [startwidth |-> 20, endwidth |-> 50, margin |-> 0, spacing |-> 50]}

PolylineExact(args) ==
    \A i \in DOMAIN args :
        (i - 1) % 2 = 1 =>
            CornerExact(args[i][1], IF Len(args[i]) = 2 THEN args[i][2] ELSE 0)

InitTurtle ==
    /\ burn \in TurtleBurns
    /\ thickness \in Thicknesses
    /\ tabs \in TabWidths
    /\ debug = FALSE
    /\ labels = FALSE
    /\ cv \in StartCanvases
    /\ pc = "turtle"
    /\ cur = NoCall
    /\ last = NoCall
    /\ log = <<>>
    /\ nops = 0

Drawn(call, c) ==
    /\ pc = "turtle"
    /\ nops < MaxDraws
    /\ nops' = nops + 1
    /\ cv' = Clear(c)
    /\ last' = call @@ [pre |-> Pre(cv), post |-> Pre(c), out |-> c.out]
    /\ UNCHANGED <<Config, pc, cur, log>>

DoCorner(degrees, radius, ntabs) ==
    /\ CornerExact(degrees, radius)
    /\ CornerUntabbed(degrees, radius, ntabs)
    /\ Drawn([op |-> "corner", degrees |-> degrees, radius |-> radius, ntabs |-> ntabs],
             corner(Clear(cv), degrees, radius, ntabs))

DoEdge(length, ntabs) ==
    Drawn([op |-> "edge", length |-> length, ntabs |-> ntabs],
          edge(Clear(cv), length, ntabs))

DoPolyline(args) ==
    /\ PolylineExact(args)
    /\ Drawn([op |-> "polyline", args |-> args], polyline(Clear(cv), args))

DoEdgeCorner(edge1, edge2) ==
    Drawn([op |-> "edgeCorner", edge1 |-> edge1, edge2 |-> edge2],
          edgeCorner(Clear(cv), edge1, edge2))

DoHole(x, y, r, d) ==
    Drawn([op |-> "hole", x |-> x, y |-> y, r |-> r, d |-> d],
          hole(Clear(cv), x, y, r, d, 0))

NextTurtle ==
    \/ \E degrees \in CornerDegrees, radius \in Radii, ntabs \in CornerTabCounts :
          DoCorner(degrees, radius, ntabs)
    \/ \E length \in EdgeLengths, ntabs \in TabCounts : DoEdge(length, ntabs)
    \/ \E args \in Outlines : DoPolyline(args)
    \/ \E xy \in HoleCentres, r \in HoleRadii, d \in HoleDiameters :
          DoHole(xy[1], xy[2], r, d)
    \/ \E edge1 \in CornerEdges, edge2 \in CornerEdges : DoEdgeCorner(edge1, edge2)

SpecTurtle == InitTurtle /\ [][NextTurtle]_vars

(***************************************************************************)
(* Claims about the placement protocol.                                    *)
(***************************************************************************)
IsMove == last.op = "move"
Returned == IsMove /\ last.ret # "raise"
HasToken(terms, t) == \E i \in DOMAIN terms : terms[i] = t
LastTerms == IF last.where.isNone THEN <<>> ELSE last.where.terms

\* C1: under the placement protocol the depth of the canvas save stack after
\* each panel is the depth before it: a before pass that returns false pushes
\* exactly one saved transform, one that returns true pushes none, the after
\* pass pops exactly one, and the panel leaves the frame's direction as it was.
C1_StackBalanced ==
    /\ (IsMove /\ last.before /\ last.ret = "False")
          => last.post.depth = last.pre.depth + 1
    /\ (IsMove /\ last.before /\ last.ret = "True")
          => last.post.depth = last.pre.depth
    /\ (IsMove /\ ~last.before /\ last.ret = "False")
          => last.post.depth = last.pre.depth - 1
    /\ \A i \in DOMAIN log :
          /\ log[i].to.depth = log[i].from.depth
          /\ log[i].to.h = log[i].from.h
          /\ log[i].to.s = log[i].from.s
    /\ pc = "idle" => Depth(cv) = 0
    /\ pc \in {"drawing", "drawn"} => Depth(cv) = 1

\* a run that placed a drawn panel with the debug rectangle and a mirrored,
\* rotated frame, and then an undrawn one
C1_Witness ==
    /\ debug
    /\ Len(log) = 2
    /\ log[1].drawn /\ HasToken(log[1].where.terms, "mirror")
    /\ ~log[2].drawn

\* C2: a call of move that returns, returns true exactly when it is the before
\* pass and the directive has the token "only"; None, the empty directive and
\* every after pass return false.
C2_SkipIffOnlyBefore ==
    Returned =>
        /\ (last.ret = "True") <=> (last.before /\ HasToken(LastTerms, "only"))
        /\ (last.ret = "False") <=> ~(last.before /\ HasToken(LastTerms, "only"))
        /\ (last.where.isNone \/ last.where.terms = <<>>) => last.ret = "False"

\* an after pass whose directive has "only", returning false
C2_Witness ==
    IsMove /\ ~last.before /\ HasToken(LastTerms, "only") /\ last.ret = "False"

\* the displacement the claim gives for one token
ClaimShift(term, w, h, rot) ==
    LET sp == 2 * burn + thickness \div 2
        ww == (IF rot THEN h ELSE w) + sp
        hh == (IF rot THEN w ELSE h) + sp
    IN  CASE term = "right" -> VXY(ww, 0)
          [] term = "left" -> VXY(-ww, 0)
          [] term = "up" -> VXY(0, hh)
          [] term = "down" -> VXY(0, -hh)
          [] OTHER -> VZero
RECURSIVE ClaimShifts(_, _, _, _, _, _)
ClaimShifts(terms, i, w, h, rot, which) ==
    IF i > Len(terms) THEN VZero
    ELSE VPlus(IF terms[i] \in which THEN ClaimShift(terms[i], w, h, rot) ELSE VZero,
               ClaimShifts(terms, i + 1, w, h, rot, which))

\* C3: a drawn panel (before pass, drawing, after pass with the same
\* arguments) leaves the origin displaced by (w + spacing, 0) for "right",
\* (-(w + spacing), 0) for "left", (0, h + spacing) for "up" and
\* (0, -(h + spacing)) for "down", spacing = 2 * burn + thickness / 2, with w
\* and h exchanged under "rotated"; "left" and "down" are applied by the
\* before pass, "right" and "up" by the after pass; the other tokens and the
\* empty directive displace nothing.
C3_Displacement ==
    /\ (IsMove /\ last.before /\ last.ret = "False") =>
          VMinus(cv.stack[Len(cv.stack)].o, last.pre.o)
             = ClaimShifts(LastTerms, 1, last.x, last.y,
                           HasToken(LastTerms, "rotated"), {"left", "down"})
    /\ (IsMove /\ ~last.before /\ last.ret = "False" /\ last.where = last.first.where) =>
          /\ VMinus(last.post.o, last.first.pre.o)
                = ClaimShifts(LastTerms, 1, last.x, last.y,
                              HasToken(LastTerms, "rotated"), Tokens)
          /\ last.post.h = last.first.pre.h
          /\ last.post.s = last.first.pre.s

\* a drawn panel placed "right rotated", wider than high
C3_Witness ==
    /\ IsMove /\ ~last.before /\ last.ret = "False"
    /\ last.where = Str(<<"right", "rotated">>)
    /\ last.where = last.first.where
    /\ last.x # last.y
    /\ burn > 0

Without(terms, t) == SelectSeq(terms, LAMBDA e : e # t)
Shift(p) == VMinus(p.to.o, p.from.o)

\* C4: a before pass whose directive has "only" applies in that one call the
\* net translation of the drawn panel of the same size and of the same
\* directive without "only", pushes nothing on the save stack and emits no
\* debug rectangle; so "left only" undoes a drawn "right" panel of the same
\* size and "down only" a drawn "up" panel.
C4_OnlyReserves ==
    /\ (IsMove /\ last.before /\ last.ret = "True") =>
          /\ last.post.depth = last.pre.depth
          /\ \A k \in DOMAIN last.out : last.out[k].kind # "rect"
    /\ \A i, j \in DOMAIN log :
          (/\ ~log[i].drawn /\ log[j].drawn
           /\ log[i].x = log[j].x /\ log[i].y = log[j].y
           /\ Without(log[i].where.terms, "only") = log[j].where.terms)
             => Shift(log[i]) = Shift(log[j])
    /\ \A i \in DOMAIN log :
          (/\ i + 1 \in DOMAIN log
           /\ log[i].drawn /\ ~log[i + 1].drawn
           /\ log[i].x = log[i + 1].x /\ log[i].y = log[i + 1].y
           /\ \/ /\ log[i].where = Str(<<"right">>)
                 /\ log[i + 1].where = Str(<<"left", "only">>)
              \/ /\ log[i].where = Str(<<"up">>)
                 /\ log[i + 1].where = Str(<<"down", "only">>))
             => log[i + 1].to.o = log[i].from.o

\* a drawn "up" panel followed by "up only" of the same size, in debug mode
C4_Witness ==
    /\ debug
    /\ Len(log) = 2
    /\ log[1].drawn /\ log[1].where = Str(<<"up">>)
    /\ ~log[2].drawn /\ log[2].where = Str(<<"up", "only">>)
    /\ log[1].x = log[2].x /\ log[1].y = log[2].y
    /\ Shift(log[2]) # VZero

\* C5: move raises ValueError, naming the offending token, whenever the
\* directive has a token outside {up, down, left, right, only, mirror,
\* rotated}, in the before pass and in the after pass alike.
C5_UnknownTokenRaises ==
    LET known == {"up", "down", "left", "right", "only", "mirror", "rotated"}
    IN  IsMove =>
           /\ (\E i \in DOMAIN LastTerms : LastTerms[i] \notin known)
                 => /\ last.ret = "raise"
                    /\ last.token \in Range(LastTerms) \ known
           /\ last.ret = "raise" => \E i \in DOMAIN LastTerms : LastTerms[i] \notin known

\* an after pass that raises for the unknown token behind a known one
C5_Witness ==
    /\ IsMove /\ ~last.before /\ last.ret = "raise"
    /\ last.where = Str(<<"up", Unknown>>)
    /\ last.token = Unknown

(***************************************************************************)
(* Claims about the turtle primitives.                                     *)
(***************************************************************************)
Arcs == {k \in DOMAIN last.out : last.out[k].kind = "arc"}
SameFrame == /\ last.post.o = last.pre.o
             /\ last.post.h = last.pre.h
             /\ last.post.s = last.pre.s

\* Plane geometry, with no burn: where a pen that goes ahead by each length
\* and turns by each angle, on an arc of the radius given with it, ends.
RECURSIVE Walk(_, _, _, _)
Walk(args, i, p, h) ==
    IF i > Len(args) THEN [p |-> p, h |-> Norm(h)]
    ELSE IF (i - 1) % 2 = 0
    THEN Walk(args, i + 1, VAddU(p, h, args[i][1]), h)
    ELSE LET a == args[i][1]
             r == IF Len(args[i]) = 2 THEN args[i][2] ELSE 0
             side == IF a >= 0 THEN Quarter ELSE -Quarter
             centre == VAddU(p, h + side, r)
         IN  Walk(args, i + 1, VAddU(centre, h + a + side, -r), h + a)
Closes(args) == Walk(args, 1, VZero, 0) = [p |-> VZero, h |-> 0]

\* C6: after a polyline whose lengths and angles close a polygon the frame
\* (position and heading) is the one before the call, for every burn.
C6_ClosedPolyline ==
    (last.op = "polyline" /\ Closes(last.args)) => SameFrame

\* a closed outline with an inner corner, drawn with burn in a frame that is
\* not the sheet's
C6_Witness ==
    /\ last.op = "polyline" /\ Closes(last.args)
    /\ \E i \in DOMAIN last.args : last.args[i][1] = -Deg(90)
    /\ burn = 3
    /\ last.pre.h # 0
    /\ Arcs # {}

HoleAsked == IF last.r = 0 THEN last.d \div 2 ELSE last.r
RECURSIVE TotalTurn(_)
TotalTurn(k) ==
    IF k = 0 THEN 0
    ELSE TotalTurn(k - 1)
            + (IF last.out[k].kind = "arc" THEN last.out[k].to - last.out[k].from
               ELSE 0)

\* C8: hole(x, y, r) with r > burn cuts one full circle of radius r - burn
\* about the point (x, y) of the caller's frame; with r <= burn the radius of
\* the cut is a value from 0 to Eps, never negative.
C8_HoleRadius ==
    last.op = "hole" =>
        /\ Arcs # {}
        /\ Abs(TotalTurn(Len(last.out))) = Turn
        /\ \A k \in Arcs : last.out[k].negative
        /\ HoleAsked > burn =>
              \A k \in Arcs :
                 /\ last.out[k].r = HoleAsked - burn
                 /\ last.out[k].centre = Pt(last.pre, last.x, last.y)
        /\ HoleAsked <= burn =>
              \A k \in Arcs : 0 <= last.out[k].r /\ last.out[k].r <= Eps

\* the hole of the scenario: r = 5 mm, burn = 0.1 mm, at (50 mm, 30 mm)
C8_Witness ==
    /\ last.op = "hole" /\ last.r = 50 /\ burn = 1
    /\ last.x = 500 /\ last.y = 300
    /\ \A k \in Arcs : last.out[k].r = 49
    /\ last.pre.s = -1

\* C9: corner(0, r) leaves position and heading as they were, for every
\* radius and burn, with or without tabs asked for.
C9_ZeroCorner ==
    (last.op = "corner" /\ last.degrees = 0) => SameFrame

\* corner(0, r) with 0 < r < burn, tabs asked for and configured
C9_Witness ==
    /\ last.op = "corner" /\ last.degrees = 0
    /\ last.ntabs > 0 /\ tabs > 0
    /\ 0 < last.radius /\ last.radius < burn
    /\ Arcs # {}

EdgeGaps(segs) == {i \in 1 .. (Len(segs) - 1) : segs[i + 1][1] > segs[i][2]}
RECURSIVE CutLength(_, _)
CutLength(segs, i) ==
    IF i = 0 THEN 0 ELSE CutLength(segs, i - 1) + (segs[i][2] - segs[i][1])

\* C10: edge(length, tabs = n), n > 0, with a configured tab width tw <=
\* length leaves exactly k = min(n, max(1, length div (3 * n * tw))) uncut
\* gaps, each tw wide, the cut strips between them all of one size, and cuts
\* length - k * tw in all.
C10_EdgeTabs ==
    (last.op = "edge" /\ last.ntabs > 0 /\ tabs > 0 /\ tabs <= last.length) =>
        LET e == last.out[1]
            k == Min(last.ntabs, Max(1, last.length \div (3 * last.ntabs * tabs)))
        IN  /\ Cardinality(EdgeGaps(e.segs)) = k
            /\ \A i \in EdgeGaps(e.segs) :
                  e.segs[i + 1][1] - e.segs[i][2] = e.den * tabs
            /\ \A i, j \in 2 .. (Len(e.segs) - 1) :
                  e.segs[i][2] - e.segs[i][1] = e.segs[j][2] - e.segs[j][1]
            /\ CutLength(e.segs, Len(e.segs)) = e.den * (last.length - k * tabs)

\* C11: with tabs asked for and the configured tab width above the length,
\* edge draws one line from 0 to length, with no gap in it (stated for the
\* lengths above 0, where a line has two ends).
C11_EdgeShorterThanTab ==
    (last.op = "edge" /\ last.ntabs > 0 /\ tabs > last.length /\ last.length > 0) =>
        LET e == last.out[1]
        IN  e.segs = << <<0, e.den * last.length>> >>

\* the profile a corner was given, by the registry or as it is
Profile(e) == IF "char" \in DOMAIN e THEN Edges[e.char] ELSE e
\* the lengths of the lines drawn, in the order drawn, arcs counted as -1
RECURSIVE Lines(_, _)
Lines(out, i) ==
    IF i > Len(out) THEN <<>>
    ELSE << IF out[i].kind = "edge"
            THEN (IF out[i].segs = <<>> THEN 0
                  ELSE out[i].segs[Len(out[i].segs)][2] \div out[i].den)
            ELSE -1 >> \o Lines(out, i + 1)

\* C12 as stated: edgeCorner(A, B) draws a line of endwidth(A) * tan(45),
\* the corner, then a line of startwidth(B) * tan(45).
C12_EndWidthFirst ==
    last.op = "edgeCorner" =>
        Lines(last.out, 1)
            = <<Profile(last.edge1).endwidth, -1, Profile(last.edge2).startwidth>>

\* C12, amended: edgeCorner(A, B) draws a line of startwidth(B) * tan(45),
\* the corner of the turn, then a line of endwidth(A) * tan(45); a character
\* of the registry and the profile it names give the same drawing.
C12_StartWidthFirst ==
    last.op = "edgeCorner" =>
        /\ Lines(last.out, 1)
              = <<Profile(last.edge2).startwidth, -1, Profile(last.edge1).endwidth>>
        /\ last.out[2].kind = "arc" /\ last.out[2].to - last.out[2].from = Quarter
        /\ last.post.h = Norm(last.pre.h + last.pre.s * Quarter)

\* a corner between the registry's "s" and a profile given as it is, whose
\* widths all differ
C12_Witness ==
    /\ last.op = "edgeCorner"
    /\ last.edge1 = Key("s") /\ "char" \notin DOMAIN last.edge2
    /\ Profile(last.edge1).endwidth # Profile(last.edge2).startwidth
    /\ Lines(last.out, 1) = <<Profile(last.edge2).startwidth, -1, 70>>

(***************************************************************************)
(* The hole-fill engine, fillHoles (src/boxes/__init__.py 1367-1771).      *)
(*                                                                         *)
(* Numbers.  The fill compares lengths against margins of 0.000001, 0.0001,*)
(* 0.001 and 0.01 mm, so here lengths are integers counting millionths of  *)
(* a millimetre (MM of them in one millimetre).  The candidates of the     *)
(* random fill are whole millimetres, as random.randrange returns them.    *)
(*                                                                         *)
(* The border is a rectangle [x0, x1] x [y0, y1] out of which a notch      *)
(* [a0, a1] x [b0, b1] touching one side may be cut (a0 = a1: no notch).   *)
(* Shapely's polygons are computed exactly for such a border: an inset     *)
(* with mitred joins (join_style=2) moves the four walls inwards and lets  *)
(* the notch grow by the same amount.                                      *)
(***************************************************************************)
MM == 1000000

Mm(tenths) == tenths * (MM \div 10)

\* math.ceil(a / b) and math.floor(a / b) for b > 0
Ceil(a, b) == -((-a) \div b)
Floor(a, b) == a \div b

Rect(x0, x1, y0, y1) ==
    [x0 |-> x0, x1 |-> x1, y0 |-> y0, y1 |-> y1, a0 |-> x0, a1 |-> x0, b0 |-> y0, b1 |-> y0]
Notched(x0, x1, y0, y1, a0, a1, b0, b1) ==
    [x0 |-> x0, x1 |-> x1, y0 |-> y0, y1 |-> y1, a0 |-> a0, a1 |-> a1, b0 |-> b0, b1 |-> b1]
HasNotch(reg) == reg.a0 < reg.a1 /\ reg.b0 < reg.b1

\* border = [(max_y - y + min_y, x) for x, y in border]
Swapped(reg) ==
    [x0 |-> reg.y0, x1 |-> reg.y1, y0 |-> reg.x0, y1 |-> reg.x1,
     a0 |-> reg.y1 + reg.y0 - reg.b1, a1 |-> reg.y1 + reg.y0 - reg.b0,
     b0 |-> reg.a0, b1 |-> reg.a1]

\* borderPoly.buffer(-inset, join_style=2)
Inset(reg, inset) ==
    [x0 |-> reg.x0 + inset, x1 |-> reg.x1 - inset,
     y0 |-> reg.y0 + inset, y1 |-> reg.y1 - inset,
     a0 |-> IF HasNotch(reg) THEN reg.a0 - inset ELSE reg.x0 + inset,
     a1 |-> IF HasNotch(reg) THEN reg.a1 + inset ELSE reg.x0 + inset,
     b0 |-> IF HasNotch(reg) THEN reg.b0 - inset ELSE reg.y0 + inset,
     b1 |-> IF HasNotch(reg) THEN reg.b1 + inset ELSE reg.y0 + inset]

\* the polygon is not empty, and the notch leaves it in one piece: a notch
\* may take the whole width of the polygon away only from its top or bottom
Solid(reg) ==
    /\ reg.x0 < reg.x1 /\ reg.y0 < reg.y1
    /\ HasNotch(reg) => /\ \/ reg.a0 > reg.x0 \/ reg.a1 < reg.x1
                           \/ reg.b0 <= reg.y0 \/ reg.b1 >= reg.y1
                        /\ reg.b0 > reg.y0 \/ reg.b1 < reg.y1

\* the point (x, y) lies in the polygon, its boundary included
Inside(reg, x, y) ==
    /\ reg.x0 <= x /\ x <= reg.x1 /\ reg.y0 <= y /\ y <= reg.y1
    /\ ~(HasNotch(reg) /\ reg.a0 < x /\ x < reg.a1 /\ reg.b0 < y /\ y < reg.b1)

\* borderPoly.exterior.distance(Point(x, y)) for a point of the polygon: the
\* nearest wall, or the notch.  A notch corner that is nearest on a diagonal
\* is at an irrational distance: DistanceExact is FALSE for such a point.
WallDistance(reg, x, y) ==
    Min(Min(Abs(x - reg.x0), Abs(reg.x1 - x)), Min(Abs(y - reg.y0), Abs(reg.y1 - y)))
NotchDx(reg, x) == Max(Max(reg.a0 - x, x - reg.a1), 0)
NotchDy(reg, y) == Max(Max(reg.b0 - y, y - reg.b1), 0)
DistanceExact(reg, x, y) ==
    \/ ~HasNotch(reg)
    \/ NotchDx(reg, x) = 0
    \/ NotchDy(reg, y) = 0
    \/ Max(NotchDx(reg, x), NotchDy(reg, y)) >= WallDistance(reg, x, y)
Distance(reg, x, y) ==
    IF ~HasNotch(reg) THEN WallDistance(reg, x, y)
    ELSE IF NotchDx(reg, x) = 0 THEN Min(WallDistance(reg, x, y), NotchDy(reg, y))
    ELSE IF NotchDy(reg, y) = 0 THEN Min(WallDistance(reg, x, y), NotchDx(reg, x))
    ELSE WallDistance(reg, x, y)

\* the stretches of the horizontal line at height y that lie in the polygon
Stretches(reg, y) ==
    IF ~(Solid(reg) /\ reg.y0 <= y /\ y <= reg.y1) THEN <<>>
    ELSE IF ~(HasNotch(reg) /\ reg.b0 < y /\ y < reg.b1) THEN << <<reg.x0, reg.x1>> >>
    ELSE (IF reg.x0 < reg.a0 THEN << <<reg.x0, Min(reg.a0, reg.x1)>> >> ELSE <<>>)
            \o (IF reg.a1 < reg.x1 THEN << <<Max(reg.a1, reg.x0), reg.x1>> >> ELSE <<>>)

RECURSIVE Sorted(_)
Sorted(S) ==
    IF S = {} THEN <<>>
    ELSE LET least == CHOOSE x \in S : \A z \in S : x <= z
         IN  <<least>> \o Sorted(S \ {least})

\* split(LineString([(from, y), (to, y)]), poly).geoms: the pieces of the
\* line, cut where it crosses the boundary of the polygon, from left to right
Split(reg, y, from, to) ==
    LET ends == {Stretches(reg, y)[i][j] : i \in DOMAIN Stretches(reg, y), j \in 1..2}
        cuts == Sorted({from, to} \cup {x \in ends : from < x /\ x < to})
    IN  [i \in 1..(Len(cuts) - 1) |-> <<cuts[i], cuts[i + 1]>>]

\* poly.contains(line) for a piece of the horizontal line at height y
Contains(reg, y, line) ==
    \E i \in DOMAIN Stretches(reg, y) :
        Stretches(reg, y)[i][1] <= line[1] /\ line[2] <= Stretches(reg, y)[i][2]

(***************************************************************************)
(* The arguments of a fill are a record a with the parameters of the       *)
(* source: pattern, style, border, max_radius, hspace, bspace, min_radius, *)
(* bar_length, max_random.  What the fill draws is recorded on the canvas  *)
(* in the fill's own coordinates: one command for each regularPolygonHole  *)
(* call and one for each bar, the frame being saved before and restored    *)
(* after each of them.                                                     *)
(***************************************************************************)
Patterns == {"random", "hex", "square", "hbar", "vbar"}

\* style -> <<n, a>>, a in tenths of a degree
Styles ==
    [round |-> <<0, 0>>, triangle |-> <<3, 600>>, square |-> <<4, 0>>,
     hexagon |-> <<6, 300>>, octagon |-> <<8, 225>>]

regularPolygonHole(c, x, y, r, n, a) ==
    LET c1 == holeColBefore(restoreBefore(c))
        c2 == emit(c1, [kind |-> "polygonHole", x |-> x, y |-> y, r |-> r, n |-> n, a |-> a])
    IN  restoreAfter(holeColAfter(c2))

\* the outline, drawn for debugging
showBorderPoly(c, reg) ==
    restoreAfter(emit(restoreBefore(c), [kind |-> "borderPoly", border |-> reg]))

\* one bar: moveTo(x_start, y_start + max_radius, 0), two edges of the
\* bar's length and two half circles of max_radius, in a saved context
\* from and to are the ends of its middle line, on the sheet
Bar(c, x_start, y, length, r) ==
    restore_(emit(save(c), [kind |-> "bar", x |-> x_start, y |-> y, length |-> length,
                            r |-> r, from |-> Pt(c, x_start, y),
                            to |-> Pt(c, x_start + length, y)]))

FillReturn(c) == [c |-> c, exit |-> "return", error |-> "", exact |-> TRUE]
FillRaise(c, error) == [c |-> c, exit |-> "raise", error |-> error, exact |-> TRUE]

\* nx and max_radius_x (lines 1436-1439), the same for y (1451-1454):
\* extent is max - min of the border in that direction
FitCount(a, extent) == Ceil(extent - 2 * a.bspace + a.hspace, 2 * a.max_radius + a.hspace)
FitNumerator(a, extent) ==
    extent - 2 * a.bspace - (FitCount(a, extent) - 1) * a.hspace
FitFails(a, extent) == 2 * a.max_radius + a.hspace = 0 \/ FitCount(a, extent) = 0
FitExact(a, extent) ==
    FitCount(a, extent) > 0 /\ FitNumerator(a, extent) % (2 * FitCount(a, extent)) = 0
FitRadius(a, extent) ==
    IF FitCount(a, extent) > 0 THEN FitNumerator(a, extent) \div (2 * FitCount(a, extent))
    ELSE 0

\* lines 1394-1454: the checks of pattern and style, the border and the
\* radii.  exit is "return", "raise" or "go"
FillFit(c, a, pattern, reg) ==
    IF FitFails(a, reg.x1 - reg.x0) THEN FillRaise(c, "ZeroDivisionError")
    ELSE IF pattern = "hex"
    THEN [c |-> c, exit |-> "go", error |-> "", exact |-> FALSE]
    ELSE IF FitFails(a, reg.y1 - reg.y0) THEN FillRaise(c, "ZeroDivisionError")
    ELSE [c |-> c, exit |-> "go", error |-> "", pattern |-> pattern, reg |-> reg,
          exact |-> FitExact(a, reg.x1 - reg.x0) /\ FitExact(a, reg.y1 - reg.y0),
          n |-> Styles[a.style][1], a |-> Styles[a.style][2],
          max_radius_x |-> FitRadius(a, reg.x1 - reg.x0),
          max_radius_y |-> FitRadius(a, reg.y1 - reg.y0)]

\* FillBorder that moves the frame by the height of the border
FillBorderByHeight(c, a) ==
    LET c1 == IF debug THEN showBorderPoly(c, a.border) ELSE c
    IN  IF a.pattern = "vbar"
        THEN LET reg == Swapped(a.border)
                 c2 == emit(moveTo(c1, 0, reg.x1 - reg.x0, -Quarter),
                        [kind |-> "moveTo", x |-> 0, y |-> reg.x1 + reg.x0,
                         degrees |-> -90])
             IN  FillFit(IF debug THEN showBorderPoly(c2, reg) ELSE c2, a, "hbar", reg)
        ELSE FillFit(c1, a, a.pattern, a.border)

FillBorder(c, a) ==
    LET c1 == IF debug THEN showBorderPoly(c, a.border) ELSE c
    IN  IF a.pattern = "vbar"
        THEN LET reg == Swapped(a.border)
                 c2 == emit(moveTo(c1, 0, reg.x1 + reg.x0, -Quarter),
                        [kind |-> "moveTo", x |-> 0, y |-> reg.x1 + reg.x0,
                         degrees |-> -90])
             IN  FillFit(IF debug THEN showBorderPoly(c2, reg) ELSE c2, a, "hbar", reg)
        ELSE FillFit(c1, a, a.pattern, a.border)

FillSetup(c, a) ==
    IF a.pattern \notin Patterns THEN FillReturn(c)
    ELSE IF a.style \notin DOMAIN Styles THEN FillRaise(c, "ValueError")
    ELSE FillBorder(c, a)

(***************************************************************************)
(* The square lattice (lines 1507-1631).  f is the record of what the rows *)
(* share: the arguments a, the border reg, the radii and the four inset    *)
(* polygons.  A piece of the inner line is <<left, right, contained>>,     *)
(* contained being innerTestPoly.contains(piece); inner_line_index counts  *)
(* from 1 here.  st is [c, xw, idx, exact]: the canvas, the walking x, the *)
(* inner line index, and whether every distance met so far was rational.   *)
(***************************************************************************)
LatticeSetup(a, s) ==
    LET max_radius == Min(s.max_radius_x, s.max_radius_y)
    IN  [a |-> a, reg |-> s.reg, n |-> s.n, angle |-> s.a,
         max_radius |-> max_radius,
         max_radius_x |-> s.max_radius_x, max_radius_y |-> s.max_radius_y,
         pitch |-> 2 * s.max_radius_x + a.hspace,
         outerCutPoly |-> Inset(s.reg, a.bspace - 1),
         outerTestPoly |-> Inset(s.reg, a.bspace - 10000),
         innerCutPoly |-> Inset(s.reg, a.bspace + max_radius - 100),
         innerTestPoly |-> Inset(s.reg, a.bspace + max_radius - 1000)]

InnerPiece(f, y, line) == <<line[1], line[2], Contains(f.innerTestPoly, y, line)>>
InnerLineSplit(f, y) ==
    LET pieces == Split(f.innerCutPoly, y, f.outerCutPoly.x0, f.reg.x1 + MM)
    IN  [i \in DOMAIN pieces |-> InnerPiece(f, y, pieces[i])]

\* while inner_line_index < len(...) and (bounds[side] < xw or not contains): index += 1
RECURSIVE SkipInner(_, _, _, _)
SkipInner(inner, idx, xw, side) ==
    IF idx <= Len(inner) /\ (inner[idx][side] < xw \/ ~inner[idx][3])
    THEN SkipInner(inner, idx + 1, xw, side)
    ELSE idx

\* while xw < bounds[2]: a full size hole, xw += pitch
RECURSIVE InnerRun(_, _, _, _)
InnerRun(st, f, y, right) ==
    IF st.xw < right
    THEN InnerRun([st EXCEPT !.c = regularPolygonHole(@, st.xw, y, f.max_radius, f.n, f.angle),
                             !.xw = @ + f.pitch], f, y, right)
    ELSE st

\* lines 1619-1625: a hole sized by the distance to the border
BorderRadiusNoSpace(f, x, y) == Min(Distance(f.reg, x, y), f.max_radius)
BorderRadius(f, x, y) == Min(Distance(f.reg, x, y) - f.a.bspace, f.max_radius)
BorderHole(st, f, y) ==
    [c |-> IF BorderRadius(f, st.xw, y) >= f.a.min_radius
           THEN regularPolygonHole(st.c, st.xw, y, BorderRadius(f, st.xw, y), f.n, f.angle)
           ELSE st.c,
     xw |-> st.xw + f.pitch,
     idx |-> st.idx,
     exact |-> st.exact /\ DistanceExact(f.reg, st.xw, y)]

Forward(st, inner) == [st EXCEPT !.idx = SkipInner(inner, @, st.xw, 1)]

\* while not xw > x_end
RECURSIVE WalkLine(_, _, _, _, _)
WalkInner(st, f, y, inner, x_end) ==
    IF st.xw > x_end THEN st
    ELSE WalkLine(BorderHole(st, f, y), f, y, inner, x_end)
WalkLine(st, f, y, inner, x_end) ==
    IF st.xw > x_end THEN st
    ELSE IF Len(inner) >= st.idx /\ st.xw > inner[st.idx][1]
    THEN WalkInner(Forward(InnerRun(st, f, y, inner[st.idx][2]), inner), f, y, inner, x_end)
    ELSE WalkLine(BorderHole(st, f, y), f, y, inner, x_end)

\* lines 1579-1593: the first lattice point of the piece
WalkStart(st, f, xs, inner, x_start) ==
    [st EXCEPT !.xw = Ceil(x_start - xs, f.pitch) * f.pitch + xs,
               !.idx = SkipInner(inner, @, Ceil(x_start - xs, f.pitch) * f.pitch + xs, 2)]

\* for line_this in outer_line_split.geoms
RECURSIVE LatticeLine(_, _, _, _, _, _)
LatticeLine(st, f, y, outer, inner, k) ==
    IF k > Len(outer) THEN st
    ELSE IF ~Contains(f.outerTestPoly, y, outer[k])
    THEN LatticeLine(st, f, y, outer, inner, k + 1)
    ELSE LatticeLine(WalkLine(WalkStart(st, f, f.reg.x0 + f.a.bspace + f.max_radius_x,
                                        inner, outer[k][1]),
                              f, y, inner, outer[k][2]),
                     f, y, outer, inner, k + 1)

\* while y < (max_y - bspace - max_radius_y)
RECURSIVE LatticeRows(_, _, _)
LatticeRows(st, f, y) ==
    IF ~(y < f.reg.y1 - f.a.bspace - f.max_radius_y) THEN st
    ELSE LatticeRows(
            LatticeLine([st EXCEPT !.idx = 1], f, y,
                        Split(f.outerCutPoly, y, f.outerCutPoly.x0, f.reg.x1 + MM),
                        InnerLineSplit(f, y), 1),
            f, y + 2 * f.max_radius_y + f.a.hspace - 100)

\* the lattice is computed where the outer polygon is not empty, the
\* pitch and the row step are positive
LatticeExact(f) ==
    /\ Solid(f.outerCutPoly) /\ Solid(f.innerCutPoly)
    /\ f.pitch > 0
    /\ 2 * f.max_radius_y + f.a.hspace - 100 > 0

LatticeDebug(c, f) ==
    IF debug THEN showBorderPoly(showBorderPoly(c, f.outerCutPoly), f.innerCutPoly) ELSE c

LatticeFrom(c, f) ==
    IF f.reg.y1 - f.reg.y0 < 2 * f.max_radius + 2 * f.a.bspace THEN FillReturn(c)
    ELSE IF ~LatticeExact(f) THEN [c |-> c, exit |-> "return", error |-> "", exact |-> FALSE]
    ELSE LET st == LatticeRows([c |-> LatticeDebug(c, f), xw |-> 0, idx |-> 1, exact |-> TRUE],
                               f, f.reg.y0 + f.a.bspace + f.max_radius_y)
         IN  [c |-> st.c, exit |-> "return", error |-> "", exact |-> st.exact]

Lattice(a, s) == LatticeFrom(s.c, LatticeSetup(a, s))

(***************************************************************************)
(* The bars (lines 1633-1769); vbar is hbar on the swapped border.  g is   *)
(* the record of what the rows share; st is [c, segment_max].              *)
(***************************************************************************)
BarSetup(a, s) ==
    [a |-> a, reg |-> s.reg, max_radius |-> s.max_radius_y,
     shrinkPoly |-> Inset(s.reg, a.bspace + s.max_radius_y - 10000),
     cutPoly |-> Inset(s.reg, a.bspace + s.max_radius_y - 1),
     segment_length |-> <<a.bar_length \div 2, a.bar_length>>,
     step_y |-> 2 * s.max_radius_y + a.hspace - 100]

\* while length > 0: a bar of at most segment_length[segment_max], then a gap
RECURSIVE LongBarNoGap(_, _, _, _, _)
RECURSIVE LongBar(_, _, _, _, _)
LongBarEnd(g, st, x_start, xw_end) ==
    Min(x_start + g.segment_length[st.segment_max + 1], xw_end)
\* LongBar whose next bar starts where the last one ends
LongBarNoGap(st, g, y, x_start, xw_end) ==
    IF ~(xw_end - x_start > 0) THEN st
    ELSE LongBarNoGap([c |-> Bar(st.c, x_start, y, LongBarEnd(g, st, x_start, xw_end) - x_start,
                            g.max_radius),
                  segment_max |-> 1],
                 g, y,
                 LongBarEnd(g, st, x_start, xw_end),
                 xw_end)
LongBar(st, g, y, x_start, xw_end) ==
    IF ~(xw_end - x_start > 0) THEN st
    ELSE LongBar([c |-> Bar(st.c, x_start, y, LongBarEnd(g, st, x_start, xw_end) - x_start,
                            g.max_radius),
                  segment_max |-> 1],
                 g, y,
                 LongBarEnd(g, st, x_start, xw_end) + g.a.hspace + 2 * g.max_radius,
                 xw_end)

ShortBar(st, g, y, line, segment_toggle) ==
    [c |-> Bar(st.c, line[1], y, line[2] - line[1], g.max_radius),
     segment_max |-> IF segment_toggle THEN 0 ELSE 1]

\* for line_this in line_split.geoms
RECURSIVE BarLine(_, _, _, _, _, _)
BarPiece(st, g, y, line, segment_toggle) ==
    IF ~Contains(g.shrinkPoly, y, line) THEN st
    ELSE IF line[2] - line[1] > g.segment_length[st.segment_max + 1]
    THEN LongBar(st, g, y, line[1], line[2])
    ELSE ShortBar(st, g, y, line, segment_toggle)
BarLine(st, g, y, pieces, k, segment_toggle) ==
    IF k > Len(pieces) THEN st
    ELSE BarLine(BarPiece(st, g, y, pieces[k], segment_toggle), g, y, pieces, k + 1,
                 segment_toggle)

\* while y < (max_y - bspace - max_radius); segment_toggle is its value
\* when the row begins
RECURSIVE BarRows(_, _, _, _)
BarRows(st, g, y, segment_toggle) ==
    IF ~(y < g.reg.y1 - g.a.bspace - g.max_radius) THEN st
    ELSE BarRows(BarLine([st EXCEPT !.segment_max = IF segment_toggle THEN 0 ELSE @],
                         g, y, Split(g.cutPoly, y, g.reg.x0 - MM, g.reg.x1 + MM), 1,
                         ~segment_toggle),
                 g, y + g.step_y, ~segment_toggle)

BarsExact(g) ==
    /\ Solid(g.cutPoly)
    /\ g.step_y > 0
    /\ g.a.bar_length % 2 = 0
    /\ g.a.bar_length \div 2 + g.a.hspace + 2 * g.max_radius > 0

BarsDebug(c, g) == IF debug THEN showBorderPoly(c, g.shrinkPoly) ELSE c

BarsFrom(c, g) ==
    IF g.reg.y1 - g.reg.y0 < 2 * g.max_radius + 2 * g.a.bspace THEN FillReturn(c)
    ELSE IF ~BarsExact(g) THEN [c |-> c, exit |-> "return", error |-> "", exact |-> FALSE]
    ELSE [c |-> BarRows([c |-> BarsDebug(c, g), segment_max |-> 1], g,
                        g.reg.y0 + g.a.bspace + g.max_radius, FALSE).c,
          exit |-> "return", error |-> "", exact |-> TRUE]

Bars(a, s) == BarsFrom(s.c, BarSetup(a, s))

(***************************************************************************)
(* The random fill (lines 1456-1505), one candidate at a time.  The points *)
(* random.randrange can return are whole millimetres; the grid is the      *)
(* sequence of the holes placed, each with the cell it was stored in.      *)
(***************************************************************************)
MaxMisses == 20

\* math.floor(min + bspace) and math.ceil(max - bspace), in millimetres
RandomLow(a, low) == Floor(low + a.bspace, MM)
RandomHigh(a, high) == Ceil(high - a.bspace, MM)
RandomEmpty(a) ==
    \/ RandomLow(a, a.border.x0) >= RandomHigh(a, a.border.x1)
    \/ RandomLow(a, a.border.y0) >= RandomHigh(a, a.border.y1)
InRandomRange(a, x, y) ==
    /\ RandomLow(a, a.border.x0) <= x /\ x < RandomHigh(a, a.border.x1)
    /\ RandomLow(a, a.border.y0) <= y /\ y < RandomHigh(a, a.border.y1)

\* borderPoly.contains(Point(x, y).buffer(min_radius + bspace))
ContainsDisc(a, x, y) ==
    /\ a.min_radius + a.bspace > 0
    /\ Inside(a.border, x * MM, y * MM)
    /\ Distance(a.border, x * MM, y * MM) >= a.min_radius + a.bspace

\* int(x // (2 * max_radius + hspace))
GridCell(a, x) == Floor(x * MM, 2 * a.max_radius + a.hspace)

\* pt1.distance(pt3), for points a whole number of millimetres apart
SquaredApart(x, y, pt2) == (x - pt2.x) * (x - pt2.x) + (y - pt2.y) * (y - pt2.y)
Root(square) == CHOOSE d \in 0..square : d * d <= square /\ (d + 1) * (d + 1) > square
PointsExact(x, y, pt2) == Root(SquaredApart(x, y, pt2)) * Root(SquaredApart(x, y, pt2)) = SquaredApart(x, y, pt2)
PointDistance(x, y, pt2) == MM * Root(SquaredApart(x, y, pt2))

\* the holes of the nine cells around the candidate's
Neighbours(a, grid, x, y) ==
    {k \in DOMAIN grid : /\ Abs(grid[k].gx - GridCell(a, x)) <= 1
                         /\ Abs(grid[k].gy - GridCell(a, y)) <= 1}
Gap(a, grid, x, y, k) == PointDistance(x, y, grid[k]) - grid[k].z - a.hspace

\* hdist: max_radius, lowered to the nearest neighbour's gap, and 0 as soon
\* as it is below min_radius
HoleDistance(a, grid, x, y) ==
    IF Neighbours(a, grid, x, y) = {} THEN a.max_radius
    ELSE IF \E k \in Neighbours(a, grid, x, y) : Gap(a, grid, x, y, k) < a.min_radius
    THEN 0
    ELSE IF a.max_radius < a.min_radius THEN 0
    ELSE LET k == CHOOSE k \in Neighbours(a, grid, x, y) :
                      \A j \in Neighbours(a, grid, x, y) :
                          Gap(a, grid, x, y, k) <= Gap(a, grid, x, y, j)
         IN  Min(a.max_radius, Gap(a, grid, x, y, k))

RandomRadius(a, grid, x, y) ==
    Min(Min(Distance(a.border, x * MM, y * MM) - a.bspace, HoleDistance(a, grid, x, y)),
        a.max_radius)

\* the candidate is turned down: outside the border or too close to it, or
\* no room for a hole of min_radius
RandomMiss(a, grid, x, y) ==
    \/ ~ContainsDisc(a, x, y)
    \/ Min(Distance(a.border, x * MM, y * MM) - a.bspace, HoleDistance(a, grid, x, y))
           < a.min_radius

RandomExact(a, grid, x, y) ==
    Inside(a.border, x * MM, y * MM) =>
        /\ DistanceExact(a.border, x * MM, y * MM)
        /\ ContainsDisc(a, x, y) =>
               \A k \in Neighbours(a, grid, x, y) : PointsExact(x, y, grid[k])

(***************************************************************************)
(* A run fills up to MaxFills borders.  fillHoles is decorated with        *)
(* restore and holeCol: two saves before the body, undone when it returns  *)
(* and, by saved_context, when it raises.                                  *)
(***************************************************************************)
MaxFills == 1      \* fills begun in one run

Fill(pattern, style, border, radii, bar_length, max_random) ==
    [pattern |-> pattern, style |-> style, border |-> border,
     max_radius |-> radii[1], hspace |-> radii[2], bspace |-> radii[3],
     min_radius |-> radii[4], bar_length |-> bar_length, max_random |-> max_random]

FillPatterns == Patterns \cup {"no fill", "diagonal"}
FillStyles == {"round", "octagon", "star"}

Sheet == Rect(0, Mm(250), 0, Mm(190))
NotchedSheet == Notched(0, Mm(250), 0, Mm(190), Mm(80), Mm(170), Mm(125), Mm(190))
TightSheet == Notched(0, Mm(250), 0, Mm(190), Mm(80), Mm(170), 11874850, Mm(190))
Strip == Rect(0, Mm(40), 0, Mm(190))
Sliver == Rect(0, Mm(250), 0, Mm(40))
Patch == Rect(0, Mm(80), 0, Mm(80))

\* <<max_radius, hspace, bspace, min_radius>>
Spaces(a, b, c, d) == <<Mm(a), Mm(b), Mm(c), Mm(d)>>

FillArgs ==
    {Fill(p, s, Sheet, Spaces(30, 10, 10, 5), Mm(100), 3) :
         p \in FillPatterns, s \in FillStyles}
    \cup {Fill(p, "round", b, r, Mm(100), 3) :
              p \in {"square", "hbar", "vbar"}, b \in {Sheet, NotchedSheet},
              r \in {Spaces(30, 10, 10, 5), Spaces(30, 10, 10, 22), Spaces(30, 20, 0, 5)}}
    \cup {Fill("square", "round", TightSheet, Spaces(30, 20, 0, 5), Mm(100), 3)}
    \cup {Fill(p, s, b, r, Mm(100), 3) :
              p \in {"square", "hbar", "vbar", "diagonal"}, s \in {"round", "star"},
              b \in {Strip, Sliver},
              r \in {Spaces(30, 40, 40, 5), Spaces(30, 10, 10, 5)}}
    \cup {Fill("random", "round", b, r, Mm(100), 3) :
              b \in {Sheet, NotchedSheet},
              r \in {Spaces(30, 10, 10, 5), Spaces(30, 10, 10, 0)}}
    \cup {Fill("random", "hexagon", Patch, Spaces(30, 10, 0, 5), Mm(100), 24),
          Fill("random", "round", Strip, Spaces(30, 40, 40, 5), Mm(100), 3),
          Fill("random", "round", Strip, Spaces(30, 30, 20, 5), Mm(100), 3)}

\* the points random.randrange is taken to return, in millimetres
RandomPoints == {<<4, 3>>, <<10, 3>>, <<4, 11>>, <<10, 11>>, <<7, 7>>, <<17, 3>>, <<0, 0>>, <<12, 15>>}

InitFill ==
    /\ burn = 1
    /\ thickness \in Thicknesses
    /\ tabs = 0
    /\ debug \in BOOLEAN
    /\ labels = FALSE
    /\ cv = Canvas0
    /\ pc = "fill"
    /\ cur = NoCall
    /\ last = NoCall
    /\ log = <<>>
    /\ nops = 0

\* the fill ends: by return, or by an exception that leaves through both
\* saved contexts
FillLeave(res) ==
    IF res.exit = "raise" THEN restore_(restore_(res.c))
    ELSE restoreAfter(holeColAfter(res.c))
FillEnd(a, res, i, misses) ==
    /\ pc' = "fill"
    /\ cur' = NoCall
    /\ cv' = Clear(FillLeave(res))
    /\ last' = [op |-> "fillHoles", a |-> a, exit |-> res.exit, error |-> res.error,
                out |-> res.c.out, i |-> i, misses |-> misses,
                pre |-> IF pc = "random" THEN last.pre ELSE Pre(cv),
                post |-> Pre(FillLeave(res))]
    /\ UNCHANGED <<Config, log>>

FillBody(a, s) ==
    IF s.exit # "go" THEN s
    ELSE IF s.pattern = "hbar" THEN Bars(a, s)
    ELSE Lattice(a, s)

FillBegin(a, s) ==
    /\ s.exact
    /\ nops < MaxFills
    /\ nops' = nops + 1
    /\ IF s.exit = "go" /\ s.pattern = "random"
       THEN /\ pc' = "random"
            /\ cur' = [op |-> "fillHoles", a |-> a, n |-> s.n, angle |-> s.a,
                       i |-> 0, misses |-> 0, grid |-> <<>>]
            /\ cv' = s.c
            /\ last' = [op |-> "fillHoles", a |-> a, exit |-> "", pre |-> Pre(cv)]
            /\ UNCHANGED <<Config, log>>
       ELSE /\ FillBody(a, s).exact
            /\ FillEnd(a, FillBody(a, s), 0, 0)

FillStart(a) ==
    /\ pc = "fill"
    /\ FillBegin(a, FillSetup(holeColBefore(restoreBefore(Clear(cv))), a))

RandomGoesOnNoCap == cur.misses < MaxMisses
\* while i < max_random and misses < 20
RandomGoesOn == cur.i < cur.a.max_random /\ cur.misses < MaxMisses

\* one turn of the loop with the candidate (x, y)
RandomPlaced(a, x, y, r) ==
    /\ cur' = [cur EXCEPT !.i = @ + 1, !.misses = 0,
                          !.grid = Append(@, [x |-> x, y |-> y, z |-> r,
                                              gx |-> GridCell(a, x), gy |-> GridCell(a, y)])]
    /\ cv' = regularPolygonHole(cv, x * MM, y * MM, r, cur.n, cur.angle)
    /\ last' = [op |-> "candidate", x |-> x, y |-> y, placed |-> TRUE, r |-> r,
                pre |-> last.pre]
RandomCandidate(x, y) ==
    /\ pc = "random"
    /\ RandomGoesOn
    /\ ~RandomEmpty(cur.a)
    /\ InRandomRange(cur.a, x, y)
    /\ RandomExact(cur.a, cur.grid, x, y)
    /\ IF RandomMiss(cur.a, cur.grid, x, y)
       THEN /\ cur' = [cur EXCEPT !.i = @ + 1, !.misses = @ + 1]
            /\ cv' = cv
            /\ last' = [op |-> "candidate", x |-> x, y |-> y, placed |-> FALSE, r |-> 0,
                        pre |-> last.pre]
       ELSE RandomPlaced(cur.a, x, y, RandomRadius(cur.a, cur.grid, x, y))
    /\ UNCHANGED <<Config, pc, log, nops>>

\* random.randrange raises ValueError on an empty range
RandomRaise ==
    /\ pc = "random"
    /\ RandomGoesOn
    /\ RandomEmpty(cur.a)
    /\ FillEnd(cur.a, FillRaise(cv, "ValueError"), cur.i + 1, cur.misses + 1)
    /\ UNCHANGED nops

RandomEnd ==
    /\ pc = "random"
    /\ ~RandomGoesOn
    /\ FillEnd(cur.a, FillReturn(cv), cur.i, cur.misses)
    /\ UNCHANGED nops

NextFill ==
    \/ \E a \in FillArgs : FillStart(a)
    \/ \E xy \in RandomPoints : RandomCandidate(xy[1], xy[2])
    \/ RandomRaise
    \/ RandomEnd

SpecFill == InitFill /\ [][NextFill]_vars

(***************************************************************************)
(* Claims about the hole-fill engine.                                      *)
(***************************************************************************)
FillDone == pc = "fill" /\ last.op = "fillHoles"
HolesDrawn == {i \in DOMAIN last.out : last.out[i].kind \in {"polygonHole", "bar"}}

\* C13: fillHoles called with a pattern token outside {random, hex, square,
\* hbar, vbar} fails with an error; it never returns normally.
C13_UnknownPatternRaises ==
    (FillDone /\ last.a.pattern \notin Patterns) => last.exit = "raise"

\* C14: fillHoles called with a hole style outside {round, triangle, square,
\* hexagon, octagon} fails with an error and draws no hole, whatever the
\* pattern is, an unknown pattern included.
C14_UnknownStyleRaises ==
    (FillDone /\ last.a.style \notin DOMAIN Styles) =>
        last.exit = "raise" /\ last.error = "ValueError" /\ HolesDrawn = {}

\* C15: for the lattice and bar patterns, a border whose bounding box is too
\* narrow or too low for one hole of max_radius with the border clearance on
\* both sides makes fillHoles return normally with no hole drawn; no error
\* is raised.
TooSmall(a) ==
    \/ a.border.x1 - a.border.x0 < 2 * a.max_radius + 2 * a.bspace
    \/ a.border.y1 - a.border.y0 < 2 * a.max_radius + 2 * a.bspace
C15_TooSmallReturnsEmpty ==
    (/\ FillDone
     /\ last.a.pattern \in {"hex", "square", "hbar", "vbar"}
     /\ last.a.style \in DOMAIN Styles
     /\ TooSmall(last.a)) => last.exit = "return" /\ HolesDrawn = {}

RandomDone == FillDone /\ last.a.pattern = "random" /\ last.i > 0

\* C16: the random fill terminates: every turn of its loop adds one to the
\* count i of iterations, which never exceeds max_random, so the loop is
\* left after max_random turns at the latest; there are never more holes
\* than iterations, and a fill that used up its max_random iterations
\* returns normally with the holes placed so far.
RandomVariant ==
    /\ pc = "random" /\ pc' = "random" => cur'.i = cur.i + 1
    /\ pc = "random" /\ pc' = "fill" => last'.i >= cur.i
RandomBounded ==
    /\ pc = "random" => cur.i <= cur.a.max_random /\ Len(cur.grid) <= cur.i
    /\ RandomDone /\ last.exit = "return" =>
           last.i <= last.a.max_random /\ Cardinality(HolesDrawn) <= last.i
    /\ RandomDone /\ last.i = last.a.max_random => last.exit = "return"
C16_RandomTerminates == [][RandomVariant /\ RandomBounded']_vars
C16_Witness ==
    /\ RandomDone /\ last.exit = "return"
    /\ last.i = last.a.max_random
    /\ last.misses < MaxMisses
    /\ Cardinality(HolesDrawn) = 2

\* C17: the random fill stops exactly when max_random holes have been placed
\* or MaxMisses candidates in a row have been rejected; rejected candidates
\* do not count towards max_random.
C17_StopsAtHolesOrMisses ==
    (RandomDone /\ last.exit = "return") =>
        \/ Cardinality(HolesDrawn) = last.a.max_random
        \/ last.misses = MaxMisses

\* C18: at any time of the random fill every hole placed has a radius from
\* min_radius to max_radius, lies at least radius + bspace from the border,
\* and any two holes, whatever their grid cells, have their centres at least
\* the two radii and hspace apart.
HoleInBounds(a, pt) ==
    /\ a.min_radius <= pt.z /\ pt.z <= a.max_radius
    /\ Inside(a.border, pt.x * MM, pt.y * MM)
    /\ Distance(a.border, pt.x * MM, pt.y * MM) >= pt.z + a.bspace
HolesApart(a, pt1, pt2) ==
    MM * Root(SquaredApart(pt1.x, pt1.y, pt2)) >= pt1.z + pt2.z + a.hspace
C18_RandomHolesApart ==
    pc = "random" =>
        /\ \A k \in DOMAIN cur.grid : HoleInBounds(cur.a, cur.grid[k])
        /\ \A j, k \in DOMAIN cur.grid : j < k => HolesApart(cur.a, cur.grid[j], cur.grid[k])

LatticeEps == 100

LatticeDone == FillDone /\ last.a.pattern = "square" /\ last.exit = "return"
UsedRadius(a) ==
    Min(FitRadius(a, a.border.x1 - a.border.x0), FitRadius(a, a.border.y1 - a.border.y0))
\* the distance of a point to the border, or a lower bound of it where a
\* corner of the notch is nearest
DistanceAtLeast(reg, x, y) ==
    IF DistanceExact(reg, x, y) THEN Distance(reg, x, y)
    ELSE Min(WallDistance(reg, x, y), Max(NotchDx(reg, x), NotchDy(reg, y)))
HoleSized(a, h) ==
    \/ /\ h.r = UsedRadius(a)
       /\ DistanceAtLeast(a.border, h.x, h.y) >= a.bspace + UsedRadius(a) - LatticeEps
    \/ /\ h.r < UsedRadius(a)
       /\ DistanceExact(a.border, h.x, h.y)
       /\ h.r = Distance(a.border, h.x, h.y) - a.bspace
       /\ h.r >= a.min_radius
CentresApart(a, h1, h2) ==
    Max(Abs(h1.x - h2.x), Abs(h1.y - h2.y)) >= 2 * UsedRadius(a) + a.hspace - LatticeEps
LatticeSpaced ==
    /\ \A i \in HolesDrawn : HoleSized(last.a, last.out[i])
    /\ \A i, j \in HolesDrawn : i # j => CentresApart(last.a, last.out[i], last.out[j])

One == 10

absolute_params == [style |-> <<"none", "flat", "chest", "overthetop", "ontop">>,
                    handle |-> <<"none", "long_rounded", "long_trapezoid",
                                 "long_doublerounded", "knob">>]
relative_params == [height |-> 40, play |-> 1, handle_height |-> 80]

\* the first loop of __init__: a tuple stands for its first choice
AbsoluteDefaults == [name \in DOMAIN absolute_params |-> absolute_params[name][1]]
Factor(t, relative) == IF relative THEN t ELSE One
RelativeDefaults(factor) ==
    [name \in DOMAIN relative_params |-> relative_params[name] * factor]

\* for name, value in kw.items(): the values after the pairs from k on, and
\* whether an unknown name stopped the loop
RECURSIVE setValuesFrom(_, _, _, _)
setValuesFrom(values, factor, kw, k) ==
    IF k > Len(kw) THEN [values |-> values, exit |-> "return"]
    ELSE IF kw[k][1] \in DOMAIN absolute_params
    THEN setValuesFrom([values EXCEPT ![kw[k][1]] = kw[k][2]], factor, kw, k + 1)
    ELSE IF kw[k][1] \in DOMAIN relative_params
    THEN setValuesFrom([values EXCEPT ![kw[k][1]] = kw[k][2] * factor], factor, kw, k + 1)
    ELSE [values |-> values, exit |-> "raise"]
setValuesUnscaled(values, t, relative, kw) == setValuesFrom(values, One, kw, 1)
setValues(values, t, relative, kw) == setValuesFrom(values, Factor(t, relative), kw, 1)

MaxSets == 2       \* calls on a Settings object after its construction

SettingThicknesses == {30, 40}
Keywords ==
    {<<>>,
     << <<"height", 50>> >>,
     << <<"style", "flat">>, <<"play", 2>> >>,
     << <<"handle_height", 60>>, <<"bogus", 1>> >>,
     << <<"bogus", 1>>, <<"handle", "knob">> >>}

InitSettings ==
    /\ burn = 1
    /\ thickness \in Thicknesses
    /\ tabs = 0
    /\ debug = FALSE
    /\ labels = FALSE
    /\ cv = Canvas0
    /\ pc = "new"
    /\ cur = NoCall
    /\ last = NoCall
    /\ log = <<>>
    /\ nops = 0

\* Settings(thickness, relative, **kw)
Constructed(t, relative, kw, res) ==
    /\ pc' = IF res.exit = "raise" THEN "failed" ELSE "settings"
    /\ cur' = IF res.exit = "raise" THEN NoCall
              ELSE [op |-> "Settings", values |-> res.values, thickness |-> t]
    /\ last' = [op |-> "__init__", thickness |-> t, relative |-> relative, kw |-> kw,
                exit |-> res.exit]
    /\ UNCHANGED <<Config, cv, log, nops>>
SettingsNew(t, relative, kw) ==
    /\ pc = "new"
    /\ Constructed(t, relative, kw,
                   setValues(AbsoluteDefaults @@ RelativeDefaults(Factor(t, relative)),
                             t, relative, kw))

\* settings.setValues(thickness, relative, **kw)
ValuesSet(t, relative, kw, res) ==
    /\ cur' = [cur EXCEPT !.values = res.values]
    /\ last' = [op |-> "setValues", thickness |-> t, relative |-> relative, kw |-> kw,
                exit |-> res.exit, before |-> cur.values]
    /\ nops' = nops + 1
    /\ UNCHANGED <<Config, cv, pc, log>>
SettingsSet(t, relative, kw) ==
    /\ pc = "settings"
    /\ nops < MaxSets
    /\ ValuesSet(t, relative, kw, setValues(cur.values, t, relative, kw))

\* settings.<name>: __getattr__ reads self.values or raises AttributeError
SettingsGet(name) ==
    /\ pc = "settings"
    /\ nops < MaxSets
    /\ last' = IF name \in DOMAIN cur.values
               THEN [op |-> "__getattr__", name |-> name, exit |-> "return",
                     value |-> cur.values[name]]
               ELSE [op |-> "__getattr__", name |-> name, exit |-> "raise"]
    /\ nops' = nops + 1
    /\ UNCHANGED <<Config, cv, pc, cur, log>>

NextSettings ==
    \/ \E t \in SettingThicknesses, relative \in BOOLEAN, kw \in Keywords :
          SettingsNew(t, relative, kw)
    \/ \E t \in SettingThicknesses, relative \in BOOLEAN, kw \in Keywords :
          SettingsSet(t, relative, kw)
    \/ \E name \in {"height", "style", "thickness", "bogus"} : SettingsGet(name)

SpecSettings == InitSettings /\ [][NextSettings]_vars

(***************************************************************************)
(* Claims about Settings.                                                  *)
(***************************************************************************)
Named(kw) == {kw[k][1] : k \in DOMAIN kw}
\* the value the call gives for a name: the last pair with that name
Given(kw, name) == kw[CHOOSE k \in DOMAIN kw : kw[k][1] = name][2]
StoredAs(values, name, kw, default, factor) ==
    IF name \in DOMAIN relative_params
    THEN values[name] = (IF name \in Named(kw) THEN Given(kw, name) ELSE default) * factor
    ELSE values[name] = (IF name \in Named(kw) THEN Given(kw, name) ELSE default)
Defaults == AbsoluteDefaults @@ relative_params
Params == DOMAIN absolute_params \cup DOMAIN relative_params

\* the object was built with relative=True and nothing was set since
FreshRelative == pc = "settings" /\ last.op = "__init__" /\ last.relative
ConstructedScaled ==
    FreshRelative =>
        /\ DOMAIN cur.values = Params
        /\ \A name \in DOMAIN relative_params :
               StoredAs(cur.values, name, last.kw, Defaults[name], last.thickness)
        /\ \A name \in DOMAIN absolute_params :
               StoredAs(cur.values, name, last.kw, Defaults[name], One)
OnlySetValues ==
    (pc = "settings" /\ pc' = "settings" /\ cur'.values # cur.values) =>
        last'.op = "setValues"
Unnamed ==
    (pc = "settings" /\ pc' = "settings" /\ last'.op = "setValues") =>
        \A name \in Params \ Named(last'.kw) : cur'.values[name] = cur.values[name]

\* C20 as claimed: a Settings object built with thickness t and
\* relative=True stores the relative parameters times t and the absolute
\* ones unscaled; afterwards the values change only in setValues, which
\* changes the named parameters only and stores the named relative ones
\* times the thickness of that call.
C20_SetScalesByThickness ==
    [][/\ ConstructedScaled'
       /\ OnlySetValues
       /\ Unnamed
       /\ (pc = "settings" /\ pc' = "settings" /\ last'.op = "setValues"
              /\ last'.exit = "return") =>
             \A name \in Named(last'.kw) :
                 StoredAs(cur'.values, name, last'.kw, 0,
                          IF name \in DOMAIN relative_params THEN last'.thickness ELSE One)]_vars

\* C20 amended: the same, the named relative parameters being stored times
\* the thickness of that call when it scales (relative=True) and as given
\* when it does not.
C20_SetScalesIfRelative ==
    [][/\ ConstructedScaled'
       /\ OnlySetValues
       /\ Unnamed
       /\ (pc = "settings" /\ pc' = "settings" /\ last'.op = "setValues"
              /\ last'.exit = "return") =>
             \A name \in Named(last'.kw) :
                 StoredAs(cur'.values, name, last'.kw, 0,
                          IF name \in DOMAIN relative_params
                          THEN Factor(last'.thickness, last'.relative) ELSE One)]_vars
C20_Witness ==
    /\ pc = "settings" /\ last.op = "setValues" /\ last.exit = "return"
    /\ last.relative /\ last.thickness = 30
    /\ "height" \in Named(last.kw)
    /\ cur.thickness = 40
    /\ cur.values["height"] = 50 * 30
    /\ cur.values["play"] = 1 * 40
    /\ cur.values["style"] = "none"

(***************************************************************************)
(* The other primitives wrapped by utils.restore and utils.holeCol:        *)
(* rectangularHole, dHole and mountingHole.  The result of a body is the   *)
(* canvas where it ends and how it ends; an exception leaves through the   *)
(* saved contexts of both wrappers (saved_context restores in a finally)   *)
(* and skips the move_to that restore makes after a return.                *)
(***************************************************************************)
Returns(c) == [c |-> c, exit |-> "return"]
Raises(c) == [c |-> c, exit |-> "raise"]
\* the wrappers after the body, restore around holeCol
restoreLeaveNoPop(res) ==
    IF res.exit = "raise" THEN restore_(res.c)
    ELSE restoreAfter(holeColAfter(res.c))
restoreLeave(res) ==
    IF res.exit = "raise" THEN restore_(restore_(res.c))
    ELSE restoreAfter(holeColAfter(res.c))

\* for d in (dy, dx, dy, dx / 2.0 + r): self.corner(-90, r); self.edge(d - 2 * r)
RECURSIVE rectangularSides(_, _, _, _)
RECURSIVE rectangularNext(_, _, _, _)
rectangularSides(c, ds, r, i) ==
    IF i > Len(ds) THEN c
    ELSE rectangularNext(edge(corner(c, -Quarter, r, 0), ds[i] - 2 * r, 0), ds, r, i)
rectangularNext(c, ds, r, i) ==
    IF Done(c) THEN rectangularSides(c, ds, r, i + 1) ELSE c
rectangularHoleBody(c, x, y, dx, dy, r0, center_x, center_y) ==
    LET r == Min(r0, Min(dx \div 2, dy \div 2))
        x_start == IF center_x THEN x ELSE x + dx \div 2
        y_start == IF center_y THEN y - dy \div 2 ELSE y
        c1 == moveTo(c, x_start, y_start + burn, HalfTurn)
        c2 == edge(c1, dx \div 2 - r, 0)
    IN  Returns(rectangularSides(c2, <<dy, dx, dy, dx \div 2 + r>>, r, 1))

\* dHole with r and w given.  a = degrees(acos(w / r)) after w -= r; the
\* model draws the widths for which a is 0, 90 or 180 degrees.
DWidth(r, w) == w - r
DExact(r, w) == r <= 0 \/ Abs(DWidth(r, w)) > r \/ DWidth(r, w) \in {0, r, -r}
DAngle(r, w) ==
    IF DWidth(r, w) = r THEN 0 ELSE IF DWidth(r, w) = 0 THEN Quarter ELSE HalfTurn
\* 2 * r * math.sin(math.radians(a))
DChord(r, w) == IF DWidth(r, w) = 0 THEN 2 * r ELSE 0
dHoleBody(c, x, y, r, w, angle) ==
    IF r <= 0 THEN Returns(c)
    ELSE IF Abs(DWidth(r, w)) > r THEN Returns(hole(c, x, y, r, 0, 0))
    ELSE LET a == DAngle(r, w)
             c1 == moveTo(c, x, y, angle - a)
             c2 == moveTo(c1, r - burn, 0, -Quarter)
             c3 == corner(c2, -Turn + 2 * a, r, 0)
             c4 == corner(c3, -a, 0, 0)
         IN  Returns(edge(c4, DChord(r, w), 0))

\* mountingHole.  a = degrees(asin(rs / rh)): math.asin raises ValueError
\* when the shaft is wider than the head; the model draws the pear whose
\* head is as wide as its shaft (a = 90).
MountingExact(d_shaft, d_head) ==
    \/ d_shaft < 2 * burn
    \/ d_head = 0 \/ d_head < 2 * burn
    \/ d_shaft >= d_head
mountingHoleBody(c, x, y, d_shaft, d_head, angle, ntabs) ==
    IF d_shaft < 2 * burn THEN Returns(c)
    ELSE IF d_head = 0 \/ d_head < 2 * burn
    THEN Returns(hole(c, x, y, 0, d_shaft, ntabs))
    ELSE LET rs == d_shaft \div 2
             rh == d_head \div 2
             c1 == moveTo(c, x, y, angle)
             c2 == moveTo(c1, 0, rs - burn, 0)
             c3 == corner(c2, -HalfTurn, rs, ntabs)
             c4 == edge(c3, 2 * rs, ntabs)
         IN  IF rs > rh THEN Raises(c4)
             ELSE LET a == Quarter
                      c5 == corner(c4, Quarter - a, 0, ntabs)
                      c6 == corner(c5, -Turn + 2 * a, rh, ntabs)
                      c7 == corner(c6, Quarter - a, 0, ntabs)
                  IN  Returns(edge(c7, 2 * rs, ntabs))

(***************************************************************************)
(* The wrapped primitives, one call in a run: a primitive drawn with the   *)
(* turtle, or a fill.                                                      *)
(***************************************************************************)
RectangleHoles == {<<200, 100, 0>>, <<200, 100, 20>>, <<200, 100, 80>>, <<0, 0, 0>>}
DWidths == {0, 50, 100, 200}
ShaftDiameters == {4, 60, 100}
HeadDiameters == {0, 60}
HoleAngles == {0, Deg(30)}
RestoreFills ==
    {Fill(p, s, Sheet, Spaces(30, 10, 10, 5), Mm(100), 3) :
         p \in {"square", "hbar", "vbar", "random", "diagonal"}, s \in {"round", "star"}}
    \cup {Fill("square", "round", Strip, Spaces(30, 40, 40, 5), Mm(100), 3),
          Fill("vbar", "round", NotchedSheet, Spaces(30, 10, 10, 5), Mm(100), 3),
          Fill("random", "round", Strip, Spaces(30, 30, 20, 5), Mm(100), 3)}

InitRestore ==
    /\ thickness \in Thicknesses
    /\ tabs = 0
    /\ labels = FALSE
    /\ \/ pc = "turtle" /\ burn \in TurtleBurns /\ debug = FALSE
       \/ pc = "fill" /\ burn = 1 /\ debug \in BOOLEAN
    /\ cv \in StartCanvases
    /\ cur = NoCall
    /\ last = NoCall
    /\ log = <<>>
    /\ nops = 0

\* a wrapped body ended as res: the wrappers leave, and the call is over
Wrapped(call, res) ==
    Drawn(call @@ [exit |-> res.exit, inner |-> Pre(res.c)], restoreLeave(res))

DoWrappedHole(x, y, r, d) ==
    Wrapped([op |-> "hole", x |-> x, y |-> y, r |-> r, d |-> d],
            Returns(holeBody(holeColBefore(restoreBefore(Clear(cv))), x, y, r, d, 0)))
DoRectangularHole(x, y, dx, dy, r, centred) ==
    Wrapped([op |-> "rectangularHole", x |-> x, y |-> y, dx |-> dx, dy |-> dy, r |-> r],
            rectangularHoleBody(holeColBefore(restoreBefore(Clear(cv))), x, y, dx, dy, r,
                                centred, centred))
DoDHole(x, y, r, w, angle) ==
    /\ DExact(r, w)
    /\ Wrapped([op |-> "dHole", x |-> x, y |-> y, r |-> r, w |-> w],
               dHoleBody(holeColBefore(restoreBefore(Clear(cv))), x, y, r, w, angle))
DoMountingHole(x, y, d_shaft, d_head, angle) ==
    /\ MountingExact(d_shaft, d_head)
    /\ Wrapped([op |-> "mountingHole", x |-> x, y |-> y, d_shaft |-> d_shaft,
                d_head |-> d_head],
               mountingHoleBody(holeColBefore(restoreBefore(Clear(cv))), x, y, d_shaft,
                                d_head, angle, 0))
\* text is wrapped by restore alone
DoText(x, y) ==
    Drawn([op |-> "text", x |-> x, y |-> y, exit |-> "return",
           inner |-> Pre(textBody(restoreBefore(Clear(cv)), x, y))],
          text(Clear(cv), x, y))

NextRestore ==
    \/ \E r \in {0, 50}, d \in HoleDiameters : DoWrappedHole(500, 300, r, d)
    \/ \E h \in RectangleHoles, centred \in BOOLEAN :
          DoRectangularHole(500, 300, h[1], h[2], h[3], centred)
    \/ \E r \in {0, 50}, w \in DWidths, angle \in HoleAngles : DoDHole(500, 300, r, w, angle)
    \/ \E d_shaft \in ShaftDiameters, d_head \in HeadDiameters, angle \in HoleAngles :
          DoMountingHole(500, 300, d_shaft, d_head, angle)
    \/ \E xy \in HoleCentres : DoText(xy[1], xy[2])
    \/ \E a \in RestoreFills : FillStart(a)
    \/ \E xy \in RandomPoints : RandomCandidate(xy[1], xy[2])
    \/ RandomRaise
    \/ RandomEnd

SpecRestore == InitRestore /\ [][NextRestore]_vars

WrappedOps == {"hole", "rectangularHole", "dHole", "mountingHole", "text", "fillHoles"}
\* a call of a wrapped primitive has ended, by return or by an exception
WrappedDone == last.op \in WrappedOps /\ "post" \in DOMAIN last

\* C21: every primitive wrapped by the restore decorator leaves the canvas
\* transform and the depth of the canvas save stack as they were before the
\* call, on every exit: a return, an early return on degenerate input
\* (mountingHole with d_shaft < 2 * burn, dHole with r <= 0, fillHoles on an
\* undersized region or with an unknown pattern) and a raised error.
C21_RestoreOnEveryExit ==
    WrappedDone => last.post = last.pre

\* a mounting hole whose shaft is wider than its head, drawn in a mirrored
\* frame: the body has turned and moved the frame two saves deep when
\* math.asin raises
C21_Witness ==
    /\ last.op = "mountingHole" /\ last.exit = "raise"
    /\ last.pre.s = -1
    /\ last.inner.depth = last.pre.depth + 2
    /\ last.inner.o # last.pre.o /\ last.inner.h # last.pre.h
    /\ last.out # <<>>

RECURSIVE TurnOf(_, _)
\* the spans of the arcs out[1 .. k], added up
TurnOf(out, k) ==
    IF k = 0 THEN 0
    ELSE TurnOf(out, k - 1)
            + (IF out[k].kind = "arc" THEN out[k].to - out[k].from ELSE 0)
\* the arcs of a corner are steps arcs of at most 36 degrees that add up to
\* its angle: every sub-arc was drawn as one arc
Subdivided ==
    /\ \A k \in Arcs : Abs(last.out[k].to - last.out[k].from) <= Deg(36)
    /\ TurnOf(last.out, Len(last.out)) = last.degrees
    /\ Cardinality(Arcs) = Abs(last.degrees) \div Deg(36) + 1
    /\ \A k \in Arcs :
          (last.out[k].to - last.out[k].from) * Cardinality(Arcs) = last.degrees

\* C22 as claimed: whenever |degrees| > 100, or |degrees| > 36 with a radius
\* that is not zero, corner (no tabs) emits only sub-arcs of at most 36
\* degrees whose spans add up to degrees, and no sub-arc is subdivided again.
C22_SplitsIfRadiusNonzero ==
    (/\ last.op = "corner"
     /\ \/ Abs(last.degrees) > Deg(100)
        \/ Abs(last.degrees) > Deg(36) /\ last.radius # 0)
        => Subdivided

\* C22 amended: the same for |degrees| > 100, or |degrees| > 36 with a
\* radius above half the burn.
C22_SplitsIfRadiusAboveHalfBurn ==
    (/\ last.op = "corner"
     /\ \/ Abs(last.degrees) > Deg(100)
        \/ Abs(last.degrees) > Deg(36) /\ 2 * last.radius > burn)
        => Subdivided

\* a corner of 120 degrees with a radius and burn, drawn as four arcs of 30
C22_Witness ==
    /\ last.op = "corner" /\ last.degrees = Deg(120) /\ last.radius = 50 /\ burn = 3
    /\ Cardinality(Arcs) = 4
    /\ \A k \in Arcs : last.out[k].to - last.out[k].from = Deg(30)

\* what rectangularWall draws for a wall x by y with plain edges: each side's
\* profile once, then the corner made of a line of no length, a quarter turn
\* and a line of no length
WallLines(x, y) ==
    <<x, 0, -1, 0>> \o <<y, 0, -1, 0>> \o <<x, 0, -1, 0>> \o <<y, 0, -1, 0>>
WallDrawn ==
    /\ last.op = "wall"
    /\ Lines(last.out, 1) = WallLines(cur.x, cur.y)
    /\ \A k \in Arcs : last.out[k].to - last.out[k].from = Quarter
BeforePass == last.op = "move" /\ last.before

\* C23: rectangularWall, when its before-pass move returns false, invokes
\* the four edge profiles once each in the order bottom, right, top, left,
\* each followed by one edgeCorner of 90 degrees, and then makes one
\* after-pass move; when the before pass returns true it invokes no profile,
\* draws nothing and makes no after-pass move.
C23_WallProtocol ==
    [][/\ (BeforePass' /\ last'.ret = "False") <=> pc' = "drawing"
       /\ pc = "drawing" => (pc' = "drawn" /\ WallDrawn')
       /\ pc = "drawn" => (last'.op = "move" /\ ~last'.before /\ pc' \in {"idle", "failed"}
                              /\ last'.first = cur)
       /\ (BeforePass' /\ last'.ret = "True") => (pc' = "idle" /\ last'.out = <<>>)
       /\ pc = "idle" => BeforePass']_vars

\* a wall wider than high, drawn after a before pass that returned false,
\* its after pass made
C23_Witness ==
    /\ last.op = "move" /\ ~last.before /\ last.ret = "False"
    /\ last.first.x = 300 /\ last.first.y = 200
    /\ Len(log) = 2 /\ ~log[1].drawn /\ log[2].drawn

\* C24: edge(length, tabs) ends with the turtle advanced by exactly length
\* along its heading and with the heading unchanged, for every tab count and
\* tab width, the tab width above the length included.
C24_EdgeAdvances ==
    last.op = "edge" =>
        /\ last.post.o = Pt(last.pre, last.length, 0)
        /\ last.post.h = last.pre.h
        /\ last.post.s = last.pre.s
        /\ last.post.depth = last.pre.depth

\* an edge shorter than the configured tab, tabs asked for, in a rotated frame
C24_Witness ==
    /\ last.op = "edge" /\ last.ntabs > 0 /\ tabs > last.length /\ last.length > 0
    /\ last.pre.h = Quarter
    /\ last.post.o # last.pre.o

\* the radius of one axis is at most max_radius and lets FitCount holes span
\* the inset extent exactly
FitSpans(a, extent) ==
    /\ FitRadius(a, extent) <= a.max_radius
    /\ FitCount(a, extent) * 2 * FitRadius(a, extent) + (FitCount(a, extent) - 1) * a.hspace
          = extent - 2 * a.bspace
FullSize == {i \in HolesDrawn : last.out[i].r = UsedRadius(last.a)}
\* two full-size holes next to each other along one axis leave hspace
\* between them
GapIsSpace(a, d) ==
    (0 < d /\ d < 2 * (2 * UsedRadius(a) + a.hspace)) => d - 2 * UsedRadius(a) = a.hspace

\* C25: for the square pattern the radius computed per axis never exceeds
\* max_radius and makes a whole number n of holes span the inset bounding
\* box exactly (n * 2 * radius + (n - 1) * hspace = extent - 2 * bspace), and
\* the gap between neighbouring full-size holes drawn equals hspace in x and
\* in y.
C25_ExactSpacing ==
    LatticeDone =>
        /\ FitSpans(last.a, last.a.border.x1 - last.a.border.x0)
        /\ FitSpans(last.a, last.a.border.y1 - last.a.border.y0)
        /\ \A i, j \in FullSize :
              /\ last.out[i].y = last.out[j].y
                    => GapIsSpace(last.a, last.out[j].x - last.out[i].x)
              /\ last.out[i].x = last.out[j].x
                    => GapIsSpace(last.a, last.out[j].y - last.out[i].y)

(***************************************************************************)
(* The bar fills on their own: one hbar or vbar fill of a border, with and *)
(* without a notch, at the origin and away from it.                        *)
(***************************************************************************)
Square40 == Rect(0, Mm(400), 0, Mm(400))
\* 25 x 26 mm standing on two legs 3 mm wide and 10 mm high
Legged == Notched(0, Mm(250), 0, Mm(260), Mm(30), Mm(220), 0, Mm(100))
\* the sheet and the notched sheet, moved by (5, 2) mm
Moved(reg, dx, dy) ==
    [x0 |-> reg.x0 + dx, x1 |-> reg.x1 + dx, y0 |-> reg.y0 + dy, y1 |-> reg.y1 + dy,
     a0 |-> reg.a0 + dx, a1 |-> reg.a1 + dx, b0 |-> reg.b0 + dy, b1 |-> reg.b1 + dy]
BarBorders ==
    {Square40, Legged, Sheet, NotchedSheet, Sliver,
     Moved(Sheet, Mm(50), Mm(20)), Moved(NotchedSheet, Mm(50), Mm(20)),
     Moved(Legged, Mm(50), Mm(20))}
BarSpaces == {Spaces(30, 20, 0, 5), Spaces(30, 20, 10, 5), Spaces(30, 10, 10, 5)}
BarLengths == {Mm(100), Mm(60), Mm(300)}
BarArgs ==
    {Fill(p, "round", b, r, l, 3) :
         p \in {"hbar", "vbar"}, b \in BarBorders, r \in BarSpaces, l \in BarLengths}

NextBars == \E a \in BarArgs : FillStart(a)
SpecBars == InitFill /\ [][NextBars]_vars

\* an hbar fill has ended by return; what it worked with
BarsDone == FillDone /\ last.a.pattern = "hbar" /\ last.exit = "return"
BarsOf(a) == BarSetup(a, FillFit(Canvas0, a, "hbar", a.border))
BarsDrawn == {i \in DOMAIN last.out : last.out[i].kind = "bar"}
\* the scan line a bar lies on, counted from 0
BarRow(g, i) == (last.out[i].y - (g.reg.y0 + g.a.bspace + g.max_radius)) \div g.step_y
FirstOfRow(g, i) ==
    \A j \in BarsDrawn : BarRow(g, j) = BarRow(g, i) => last.out[i].x <= last.out[j].x
\* the piece of the scan line a bar starts
PieceOf(g, i) ==
    LET st == Stretches(g.cutPoly, last.out[i].y)
    IN  st[CHOOSE k \in DOMAIN st : st[k][1] = last.out[i].x]
StartsPiece(g, i) ==
    \E k \in DOMAIN Stretches(g.cutPoly, last.out[i].y) :
        Stretches(g.cutPoly, last.out[i].y)[k][1] = last.out[i].x
Target(g, i) == IF BarRow(g, i) % 2 = 0 THEN g.a.bar_length ELSE g.a.bar_length \div 2
Alternates(g) ==
    \A i \in BarsDrawn :
        FirstOfRow(g, i) =>
            /\ StartsPiece(g, i)
            /\ last.out[i].length
                  = Min(Target(g, i), PieceOf(g, i)[2] - PieceOf(g, i)[1])
Subdivides(g) ==
    \A i \in BarsDrawn :
        (/\ StartsPiece(g, i)
         /\ PieceOf(g, i)[2] - PieceOf(g, i)[1]
               > last.out[i].length + g.a.hspace + 2 * g.max_radius)
            => \E j \in BarsDrawn :
                  /\ last.out[j].y = last.out[i].y
                  /\ last.out[j].x
                        = last.out[i].x + last.out[i].length + g.a.hspace + 2 * g.max_radius

\* C26: in hbar fill the target length of the first bar of successive scan
\* lines alternates between bar_length and half of it (line 0 long, line 1
\* short, line 2 long, ...), also when a scan line yields no bar or only
\* segments shorter than the target; a scan segment longer than the target
\* is subdivided into several bars; on a 40 x 40 square with max_radius = 3,
\* hspace = 2, bar_length = 10 at least one full-length bar is drawn.
C26_BarsAlternate ==
    BarsDone =>
        /\ Alternates(BarsOf(last.a))
        /\ Subdivides(BarsOf(last.a))
        /\ (/\ last.a.border = Square40 /\ last.a.max_radius = Mm(30)
            /\ last.a.hspace = Mm(20) /\ last.a.bar_length = Mm(100))
              => \E i \in BarsDrawn : last.out[i].length = Mm(100)

InitBars ==
    /\ burn = 1
    /\ thickness \in Thicknesses
    /\ tabs = 0
    /\ debug \in BOOLEAN
    /\ labels = FALSE
    /\ cv \in StartCanvases
    /\ pc = "fill"
    /\ cur = NoCall
    /\ last = NoCall
    /\ log = <<>>
    /\ nops = 0
SpecVbar == InitBars /\ [][NextBars]_vars

VbarDone == FillDone /\ last.a.pattern = "vbar" /\ last.exit = "return"
\* what the bars of a vbar fill have to keep clear of the border
VbarInset(a) ==
    Inset(a.border,
          a.bspace + FitRadius(a, a.border.x1 - a.border.x0) - 1)
\* the point of the border that the point (x, y) of the reflected border
\* stands for
Original(a, x, y) == <<y, a.border.y1 + a.border.y0 - x>>
BarInPlace(a, bar) ==
    LET p == Original(a, bar.x, bar.y)
        q == Original(a, bar.x + bar.length, bar.y)
    IN  /\ bar.from = Pt(last.pre, p[1], p[2])
        /\ bar.to = Pt(last.pre, q[1], q[2])
        /\ p[1] = q[1]
        /\ Inside(VbarInset(a), p[1], p[2])
        /\ Inside(VbarInset(a), q[1], q[2])

\* C27: vbar fill is hbar fill of the reflected region: the mapping of the
\* border (x, y) -> (max_y - y + min_y, x) followed by the frame change
\* moveTo(0, max_y + min_y, -90) is the identity on points, so every bar of
\* a vbar fill lies at the place of the original polygon it stands for and
\* runs vertically, also when the bounding box does not start at the origin.
C27_VbarInPlace ==
    VbarDone => \A i \in BarsDrawn : BarInPlace(last.a, last.out[i])

\* a vbar fill of the notched sheet away from the origin, in a mirrored
\* frame, with bars on both sides of the notch
C27_Witness ==
    /\ VbarDone
    /\ last.a.border = Moved(NotchedSheet, Mm(50), Mm(20))
    /\ last.pre.s = -1
    /\ Cardinality(BarsDrawn) >= 4
    /\ \E i, j \in BarsDrawn : last.out[i].x # last.out[j].x /\ last.out[i].y = last.out[j].y


\* C28: when move raises for an unknown directive token, the transform of
\* the canvas and its stack of saved transforms are as before the call: no
\* translation for the tokens in front of the unknown one has been applied
\* and, in the after pass, no saved transform has been popped.
C28_RaiseLeavesCanvas ==
    IsMove /\ last.ret = "raise" => last.post = last.pre


\* the piece of its scan line a bar lies in
PieceAt(g, i) ==
    LET st == Stretches(g.cutPoly, last.out[i].y)
    IN  st[CHOOSE k \in DOMAIN st :
              st[k][1] <= last.out[i].x /\ last.out[i].x <= st[k][2]]
InPiece(g, i) ==
    \E k \in DOMAIN Stretches(g.cutPoly, last.out[i].y) :
        /\ Stretches(g.cutPoly, last.out[i].y)[k][1] <= last.out[i].x
        /\ last.out[i].x <= Stretches(g.cutPoly, last.out[i].y)[k][2]
BarsInPiece(g, i) ==
    {j \in BarsDrawn : last.out[j].y = last.out[i].y /\ PieceAt(g, j) = PieceAt(g, i)}
\* what is left of the piece when bar i is drawn, and after it
Remaining(g, i) == PieceAt(g, i)[2] - last.out[i].x
BarGap(g) == g.a.hspace + 2 * g.max_radius
RemainingAfter(g, i) == Remaining(g, i) - (last.out[i].length + BarGap(g))
LoopEnds(g, i) ==
    /\ InPiece(g, i)
    /\ last.out[i].length >= 0
    /\ last.out[i].length <= Remaining(g, i)
    /\ RemainingAfter(g, i) < Remaining(g, i)
    /\ IF RemainingAfter(g, i) > 0
       THEN \E j \in BarsInPiece(g, i) :
               /\ last.out[j].x = last.out[i].x + last.out[i].length + BarGap(g)
               /\ Remaining(g, j) = RemainingAfter(g, i)
       ELSE \A j \in BarsInPiece(g, i) : last.out[j].x <= last.out[i].x
    /\ Cardinality(BarsInPiece(g, i))
          <= (PieceAt(g, i)[2] - PieceAt(g, i)[1]) \div BarGap(g) + 1

\* C29: the loop of hbar fill that cuts a scan segment into bars ends for
\* every segment: each turn draws one bar and takes the length of the bar
\* plus hspace + 2*max_radius off the remaining length, so a segment of
\* length L gets finitely many bars and the loop is left once the remaining
\* length is <= 0.
C29_BarLoopEnds ==
    BarsDone => \A i \in BarsDrawn : LoopEnds(BarsOf(last.a), i)

\* a scan segment cut into three bars or more
C29_Witness ==
    /\ BarsDone
    /\ \E i \in BarsDrawn :
          /\ Cardinality(BarsInPiece(BarsOf(last.a), i)) >= 3
          /\ RemainingAfter(BarsOf(last.a), i) <= 0


(***************************************************************************)
(* partsMatrix (lines 2856-2911).  The part is rectangularWall(x, y) with  *)
(* plain edges; st is [c, calls], calls being the calls of the part in the *)
(* order they are made.                                                    *)
(***************************************************************************)
\* part(*args, **kwargs) with kwargs["move"] = where
partCalled(st, where, row, drawn) ==
    Append(st.calls, [move |-> Terms(where), row |-> row, drawn |-> drawn,
                      at |-> st.c.o, depth |-> Depth(st.c)])
partAfter(c, x, y, where) ==
    IF Done(c) THEN move(c, x, y, where, FALSE, "").c ELSE c
partBody(st, b, x, y, where, row) ==
    IF Done(b.c)
    THEN [c |-> IF b.ret = "True" THEN b.c
                ELSE partAfter(wallBody(b.c, x, y), x, y, where),
          calls |-> partCalled(st, where, row, b.ret = "False")]
    ELSE st
part(st, x, y, where, row) ==
    partBody(st, move(st.c, x, y, where, TRUE, ""), x, y, where, row)

\* for i in range(count): part(*args, **kwargs)
RECURSIVE partsRepeat(_, _, _, _, _)
partsRepeatNext(st, x, y, where, count) ==
    IF Done(st.c) THEN partsRepeat(st, x, y, where, count) ELSE st
partsRepeat(st, x, y, where, count) ==
    IF count <= 0 THEN st
    ELSE partsRepeatNext(part(st, x, y, where, -1), x, y, where, count - 1)

\* partsMatrixRows that forgets the row that is not full
partsMatrixRowsFull(n, width) == n \div width
\* rows = n // width + (1 if n % width else 0)
partsMatrixRows(n, width) == n \div width + (IF n % width # 0 THEN 1 ELSE 0)

\* for m in move: the parts that make room to the left and below
RECURSIVE partsMatrixBefore(_, _, _, _, _, _, _)
partsMatrixLeft(st, x, y, term, width) ==
    IF term = "left" THEN partsRepeat(st, x, y, Str(<<"left", "only">>), width) ELSE st
partsMatrixDown(st, x, y, term, rows) ==
    IF term = "down" THEN partsRepeat(st, x, y, Str(<<"down", "only">>), rows) ELSE st
partsMatrixBeforeNext(st, x, y, terms, k, width, rows) ==
    IF Done(st.c) THEN partsMatrixBefore(st, x, y, terms, k, width, rows) ELSE st
partsMatrixBefore(st, x, y, terms, k, width, rows) ==
    IF k > Len(terms) THEN st
    ELSE partsMatrixBeforeNext(
             partsMatrixDown(partsMatrixLeft(st, x, y, terms[k], width), x, y, terms[k],
                             rows),
             x, y, terms, k + 1, width, rows)

\* for j in range(width): the parts of row i
RECURSIVE partsMatrixRow(_, _, _, _, _, _, _, _)
partsMatrixRowNext(st, x, y, terms, n, width, i, j) ==
    IF Done(st.c) THEN partsMatrixRow(st, x, y, terms, n, width, i, j) ELSE st
partsMatrixRow(st, x, y, terms, n, width, i, j) ==
    IF j >= width \/ "only" \in Range(terms) \/ width * i + j >= n THEN st
    ELSE partsMatrixRowNext(part(st, x, y, Str(<<"right">>), i), x, y, terms, n, width,
                            i, j + 1)

\* for i in range(rows): a row inside saved_context, then one step up
RECURSIVE partsMatrixDraw(_, _, _, _, _, _, _, _)
partsMatrixSaved(st) == [c |-> save(st.c), calls |-> st.calls]
partsMatrixRestored(st) ==
    IF Done(st.c) THEN [c |-> restore_(st.c), calls |-> st.calls] ELSE st
partsMatrixDrawNext(st, x, y, terms, n, width, rows, i) ==
    IF Done(st.c) THEN partsMatrixDraw(st, x, y, terms, n, width, rows, i) ELSE st
partsMatrixDraw(st, x, y, terms, n, width, rows, i) ==
    IF i >= rows THEN st
    ELSE partsMatrixDrawNext(
             part(partsMatrixRestored(
                      partsMatrixRow(partsMatrixSaved(st), x, y, terms, n, width, i, 0)),
                  x, y, Str(<<"up", "only">>), -1),
             x, y, terms, n, width, rows, i + 1)

\* back down unless "up" is asked for, to the right if "right" is
partsMatrixBack(st, x, y, terms, rows) ==
    IF "up" \notin Range(terms)
    THEN partsRepeat(st, x, y, Str(<<"down", "only">>), rows)
    ELSE st
partsMatrixRight(st, x, y, terms, width) ==
    IF "right" \in Range(terms)
    THEN partsRepeat(st, x, y, Str(<<"right", "only">>), width)
    ELSE st
partsMatrixAfter(st, x, y, terms, width, rows) ==
    IF Done(st.c)
    THEN partsMatrixRight(partsMatrixBack(st, x, y, terms, rows), x, y, terms, width)
    ELSE st

partsMatrixSized(st, x, y, terms, n, width, rows) ==
    partsMatrixAfter(
        partsMatrixDraw(partsMatrixBefore(st, x, y, terms, 1, width, rows),
                        x, y, terms, n, width, rows, 0),
        x, y, terms, width, rows)

partsMatrixWidth(n, width) == IF width = 0 THEN n ELSE width

partsMatrix(c, n, width, where, x, y) ==
    IF n <= 0 THEN [c |-> c, calls |-> <<>>]
    ELSE partsMatrixSized([c |-> c, calls |-> <<>>], x, y, Terms(where), n,
                          partsMatrixWidth(n, width),
                          partsMatrixRows(n, partsMatrixWidth(n, width)))

(***************************************************************************)
(* partsMatrix as a function of its arguments: up to MaxMatrices calls,    *)
(* each with any count, any row width and one of the directives below.     *)
(***************************************************************************)
MaxMatrices == 1
PartCounts == {-1, 0, 1, 3, 4}
RowWidths == {0, 1, 2, 5}
MatrixDirectives ==
    {None, Str(<<>>), Str(<<"up">>), Str(<<"right">>), Str(<<"left", "down">>),
     Str(<<"up", "only">>), Str(<<"mirror">>)}
PartSize == <<120, 80>>

InitMatrix ==
    /\ burn = 1
    /\ thickness \in Thicknesses
    /\ tabs = 0
    /\ debug \in BOOLEAN
    /\ labels = FALSE
    /\ cv \in StartCanvases
    /\ pc = "idle"
    /\ cur = NoCall
    /\ last = NoCall
    /\ log = <<>>
    /\ nops = 0

MatrixDone(call, res) ==
    /\ cv' = Clear(res.c)
    /\ last' = call @@ [calls |-> res.calls, post |-> Pre(res.c)]
DoPartsMatrix(n, width, where) ==
    /\ pc = "idle"
    /\ nops < MaxMatrices
    /\ nops' = nops + 1
    /\ MatrixDone([op |-> "partsMatrix", n |-> n, width |-> width, where |-> where,
                   pre |-> Pre(cv)],
                  partsMatrix(Clear(cv), n, width, where, PartSize[1], PartSize[2]))
    /\ UNCHANGED <<Config, pc, cur, log>>

NextMatrix ==
    \E n \in PartCounts, width \in RowWidths, where \in MatrixDirectives :
        DoPartsMatrix(n, width, where)

SpecMatrix == InitMatrix /\ [][NextMatrix]_vars

IsMatrix == last.op = "partsMatrix"
CallsMade == DOMAIN last.calls
DrawingCalls == {k \in CallsMade : last.calls[k].drawn}
RowsAsked ==
    (last.n + partsMatrixWidth(last.n, last.width) - 1)
        \div partsMatrixWidth(last.n, last.width)
InRow(i) == {k \in DrawingCalls : last.calls[k].row = i}
MatrixArranged ==
    /\ \A k \in CallsMade : last.calls[k].drawn <=> last.calls[k].move = <<"right">>
    /\ \A k \in CallsMade : ~last.calls[k].drawn => "only" \in Range(last.calls[k].move)
    /\ IF "only" \in Range(Terms(last.where)) THEN DrawingCalls = {}
       ELSE /\ Cardinality(DrawingCalls) = last.n
            /\ {last.calls[k].row : k \in DrawingCalls} = 0 .. RowsAsked - 1
            /\ \A i \in 0 .. RowsAsked - 1 :
                  Cardinality(InRow(i)) <= partsMatrixWidth(last.n, last.width)

\* C30: partsMatrix(n, width, move, part) calls the part in drawing mode
\* (move = "right") exactly n times, in ceil(n / width) rows of at most
\* width parts each, width 0 standing for n; with n <= 0 it calls nothing;
\* when move has "only" it draws no part; every other call of the part has
\* an "only" directive; and the stack of saved transforms is as deep after
\* it as before.
C30_PartsMatrix ==
    IsMatrix =>
        /\ last.post.depth = last.pre.depth
        /\ IF last.n <= 0 THEN last.calls = <<>> ELSE MatrixArranged

\* three parts in rows of two: two rows, the second with one part
C30_Witness ==
    /\ IsMatrix /\ last.n = 3 /\ last.width = 2 /\ last.where = Str(<<"up">>)
    /\ Cardinality(InRow(0)) = 2 /\ Cardinality(InRow(1)) = 1
    /\ Cardinality(CallsMade) = 5
    /\ last.pre.depth > 0

=============================================================================
